---- MODULE Spec2Model ----
(***************************************************************************)
(* The file-backed paper repository of jeffa5/papers and the command-line  *)
(* operations that work on it: add, import, rename-files and doctor.       *)
(*                                                                         *)
(* A file name is a sequence of one-character strings, so that stripping   *)
(* prohibited characters, taking an extension and replacing an extension   *)
(* are computed on the characters as std::path does.  A path is a          *)
(* directory and a file name; the directories are the repository root,     *)
(* one directory nested in the root and one neighbour of the root.         *)
(***************************************************************************)
EXTENDS Integers, Sequences, FiniteSets, TLC

VARIABLES
    fs,          \* the files on disk: path -> content, DOMAIN fs = existing files
    now,         \* the clock read by now_naive()
    pc,          \* the command that is running, "idle" between commands
    cmd,         \* the last command started and its arguments
    status,      \* how the last command ended: "running", "ok", or the error
    fs0,         \* the files on disk when the last command started
    paths,       \* doctor: the sorted paths still to visit
    other_files, \* doctor: path -> matched, the non-.md files seen or named
    papers,      \* rename-files: the loaded papers still to visit
    records,     \* import: the records still to import
    moves,       \* the renames performed by the running/last command
    out,         \* the reports printed by the running/last command
    chained,     \* rename-files: the run follows a completed run directly
    last,        \* the paper visited last: its note path and moved document
    reviewed,    \* review: last_review and next_review of the paper reviewed
    waits,       \* review: the time and the wait_days of every review so far
    asked,       \* review: the last evaluation of is_reviewable
    db,          \* papers-core: the rows of the papers table, row i has id i
    listed,      \* papers-core: the last call of Repo::list and its result
    calls,       \* papers-core: the calls of Repo::update that are under way
    renamed,     \* rename strategy: a title, the name made of it and its path
    parsed,      \* ids: a string given as id list and what it parses to
    loop         \* review loop: the review state of every paper and the start

vars == <<fs, now, pc, cmd, status, fs0, paths, other_files, papers, records,
          moves, out, chained, last, reviewed, waits, asked, db, listed,
          calls, renamed, parsed, loop>>

\* the variables of the commands that work on the files of the root
cliVars == <<fs, pc, cmd, status, fs0, paths, other_files, papers, records,
             moves, out, chained, last>>

\* the variables of the review schedule and of the papers table
coreVars == <<reviewed, waits, asked, db, listed>>

\* the variables of the operations that run side by side
extVars == <<calls, renamed, parsed, loop>>

-----------------------------------------------------------------------------
(* Bounds of the model *)

MaxFiles == 3
MaxTime == 2
MaxRecords == 2
MaxClock == 4
MaxReviews == 8
MaxPapers == 2
MaxRows == 1
MaxCalls == 2
MaxTitle == 3
MaxIds == 5

-----------------------------------------------------------------------------
(* Characters, names and paths *)

PROHIBITED_CHARS == {"/", "\\", "?", "%", "*", ":", "|", "\"", "<", ">", "."}

\* a variant of Strip whose character set misses '/'
StripKeepsSlash(n) == SelectSeq(n, LAMBDA c : c \notin (PROHIBITED_CHARS \ {"/"}))

\* a variant of Strip that removes the first prohibited character only
StripFirst(n) ==
    LET bad == {i \in 1..Len(n) : n[i] \in PROHIBITED_CHARS}
        first == CHOOSE i \in bad : \A j \in bad : i <= j
    IN  IF bad = {} THEN n
        ELSE SubSeq(n, 1, first - 1) \o SubSeq(n, first + 1, Len(n))

\* replace(PROHIBITED_CHARS, ""): every prohibited character is removed
Strip(n) == SelectSeq(n, LAMBDA c : c \notin PROHIBITED_CHARS)

MD == <<"m", "d">>
PDF == <<"p", "d", "f">>
TXT == <<"t", "x", "t">>

\* byte value of the characters used in file names
Code(c) ==
    CASE c = "." -> 46
      [] c = "/" -> 47
      [] c = "a" -> 97
      [] c = "b" -> 98
      [] c = "c" -> 99
      [] c = "d" -> 100
      [] c = "f" -> 102
      [] c = "m" -> 109
      [] c = "p" -> 112
      [] c = "t" -> 116
      [] c = "x" -> 120

\* lexicographic order on names by byte, the order of PathBuf for the
\* entries of one directory
RECURSIVE NameLess(_, _)
NameLess(n1, n2) ==
    IF n2 = <<>> THEN FALSE
    ELSE IF n1 = <<>> THEN TRUE
    ELSE IF Code(Head(n1)) # Code(Head(n2)) THEN Code(Head(n1)) < Code(Head(n2))
    ELSE NameLess(Tail(n1), Tail(n2))

\* index of the final '.' of a name that starts its extension; 0 if the name
\* has no '.', or only a leading one (Path::extension, Path::file_stem)
LastDot(n) ==
    LET dots == {i \in 2..Len(n) : n[i] = "."}
    IN IF dots = {} THEN 0 ELSE CHOOSE i \in dots : \A j \in dots : j <= i

HasExtension(n) == LastDot(n) # 0

\* extension().unwrap_or_default()
Extension(n) == IF LastDot(n) = 0 THEN <<>> ELSE SubSeq(n, LastDot(n) + 1, Len(n))

FileStem(n) == IF LastDot(n) = 0 THEN n ELSE SubSeq(n, 1, LastDot(n) - 1)

\* Path::with_extension on the file name
WithExtension(n, ext) ==
    IF ext = <<>> THEN FileStem(n) ELSE FileStem(n) \o <<".">> \o ext

Path(d, n) == [dir |-> d, name |-> n]

\* Option<PathBuf>::None for the document of a paper
None == [dir |-> "none", name |-> <<>>]

\* a path lives under the root when it is in the root or in a directory of it
UnderRoot(p) == p.dir \in {"root", "nested"}

\* the path made relative to the root, as a string: strip_prefix(&self.root)
\* and to_string_lossy
RelativePath(p) ==
    IF p.dir = "root" THEN p.name
    ELSE <<"n", "e", "s", "t", "e", "d", "/">> \o p.name

-----------------------------------------------------------------------------
(* File contents *)

\* a note file: front matter (PaperMeta) and the notes body
Note(title, filename, created_at, modified_at, notes) ==
    [kind |-> "note",
     meta |-> [title |-> title, filename |-> filename,
               created_at |-> created_at, modified_at |-> modified_at],
     notes |-> notes]

\* a .md file without front matter
Bad == [kind |-> "bad"]

\* a document file; sniff is the extension infer detects from its content,
\* <<>> when the type is not detected
Doc(sniff) == [kind |-> "doc", sniff |-> sniff]

IsFile(f, p) == p \in DOMAIN f

IsNote(f, p) == IsFile(f, p) /\ f[p].kind = "note"

\* the files of f with content c at p
With(f, p, c) == [q \in DOMAIN f \cup {p} |-> IF q = p THEN c ELSE f[q]]

\* std::fs::rename: the file at from is at to afterwards, replacing what was
\* there; the caller has checked that from exists
Rename(f, from, to) ==
    [q \in (DOMAIN f \ {from}) \cup {to} |-> IF q = to THEN f[from] ELSE f[q]]

-----------------------------------------------------------------------------
(* Repository store *)

\* get_path: the expected note path of a paper, relative to the root
GetPath(meta) == Path("root", Strip(meta.title) \o <<".">> \o MD)

\* write_paper: stamps modified_at and overwrites the whole file
WritePaper(f, p, meta, notes, t) ==
    With(f, p, [kind |-> "note",
                meta |-> [meta EXCEPT !.modified_at = t],
                notes |-> notes])

\* get_paper: the LoadedPaper at p, or the error
GetPaper(f, p) ==
    IF ~IsFile(f, p) THEN [err |-> "Io"]
    ELSE IF f[p].kind # "note" THEN [err |-> "NoFrontMatter"]
    ELSE [err |-> "", path |-> p, meta |-> f[p].meta, notes |-> f[p].notes]

\* a variant of AddFilename without strip_prefix: any existing file is taken
AddFilenameAny(f, file) ==
    IF file = None THEN [err |-> "", filename |-> None]
    ELSE IF ~IsFile(f, file) THEN [err |-> "Io"]
    ELSE [err |-> "", filename |-> file]

\* the file name add stores: the canonical path made relative to the root,
\* which fails for a path that is not under the root
AddFilename(f, file) ==
    IF file = None THEN [err |-> "", filename |-> None]
    ELSE IF ~IsFile(f, file) THEN [err |-> "Io"]
    ELSE IF ~UnderRoot(file) THEN [err |-> "OutsideRoot"]
    ELSE [err |-> "", filename |-> file]

\* a variant of RepoAdd that leaves created_at at the default of the type
RepoAddUnstamped(f, file, title, t) ==
    LET fn == AddFilename(f, file)
        meta == [title |-> title, filename |-> fn.filename,
                 created_at |-> 0, modified_at |-> t]
    IN  IF fn.err # "" THEN [status |-> fn.err, fs |-> f]
        ELSE IF IsFile(f, GetPath(meta)) THEN [status |-> "AlreadyExists", fs |-> f]
        ELSE [status |-> "ok", fs |-> WritePaper(f, GetPath(meta), meta, "", t),
              paper |-> meta]

\* Repo::add: the new files, the result and the record returned
RepoAdd(f, file, title, t) ==
    LET fn == AddFilename(f, file)
        meta == [title |-> title, filename |-> fn.filename,
                 created_at |-> t, modified_at |-> t]
    IN  IF fn.err # "" THEN [status |-> fn.err, fs |-> f]
        ELSE IF IsFile(f, GetPath(meta)) THEN [status |-> "AlreadyExists", fs |-> f]
        ELSE [status |-> "ok", fs |-> WritePaper(f, GetPath(meta), meta, "", t),
              paper |-> meta]

\* add of the command line: the file must be a file, then Repo::add
add(f, file, title, t) ==
    IF file # None /\ ~IsFile(f, file) THEN [status |-> "NotAFile", fs |-> f]
    ELSE RepoAdd(f, file, title, t)

-----------------------------------------------------------------------------
(* Inputs *)

A == <<"a">>
B == <<"b">>
C == <<"c">>

\* the titles given to add and found in notes; "a/" and "a" derive one path
Titles == {A, B, <<"a", "/">>, <<>>, <<"/">>}

\* the document files named on the command line
AddFiles == {None, Path("root", B \o <<".">> \o PDF),
             Path("nested", B \o <<".">> \o PDF),
             Path("neighbour", B \o <<".">> \o PDF)}

\* functions from a subset of S, of at most k elements, to V
Layouts(S, k, V) ==
    UNION {[D -> V] : D \in {X \in SUBSET S : Cardinality(X) <= k}}

Command(name, file, title, flag) ==
    [name |-> name, file |-> file, title |-> title, flag |-> flag]

NoCommand == Command("none", None, <<>>, FALSE)

\* no paper visited yet
NoPaper == [note |-> None, doc |-> None]

\* Option<NaiveDateTime>: <<>> is None and <<t>> is Some(t)
Some(t) == <<t>>

\* a paper that was never reviewed
NoReview == [last_review |-> <<>>, next_review |-> <<>>]

NoAsk == [at |-> 0, meta |-> NoReview, result |-> FALSE, asked |-> FALSE]

NoListing == [called |-> FALSE]

\* no operation runs beside another
\* no title was renamed
NoRename == [step |-> 0]

\* no id list was parsed
NoIds == [step |-> 0]

\* no review loop has run
NoLoop == [metas |-> <<>>, start |-> 0, due |-> {}, selected |-> 0]

NoExt ==
    /\ calls = <<>>
    /\ renamed = NoRename
    /\ parsed = NoIds
    /\ loop = NoLoop

\* the state of a run of no command
NoRun ==
    /\ reviewed = NoReview
    /\ waits = <<>>
    /\ asked = NoAsk
    /\ db = <<>>
    /\ listed = NoListing
    /\ NoExt
    /\ paths = <<>>
    /\ other_files = <<>>
    /\ papers = {}
    /\ records = <<>>
    /\ moves = <<>>
    /\ out = {}
    /\ chained = FALSE
    /\ last = NoPaper

-----------------------------------------------------------------------------
(* add *)

Tick ==
    /\ pc = "idle"
    /\ now < MaxTime
    /\ now' = now + 1
    /\ UNCHANGED coreVars
    /\ UNCHANGED extVars
    /\ UNCHANGED <<fs, pc, cmd, status, fs0, paths, other_files, papers,
                   records, moves, out, chained, last>>

\* SubCommand::Add without a terminal: the result of add is printed and
\* the command ends
Add ==
    /\ pc = "idle"
    /\ \E file \in AddFiles, title \in Titles :
        LET r == add(fs, file, title, now)
        IN  /\ Cardinality(DOMAIN r.fs) <= MaxFiles
            /\ fs' = r.fs
            /\ status' = r.status
            /\ cmd' = Command("add", file, title, FALSE)
    /\ fs0' = fs
    /\ UNCHANGED coreVars
    /\ UNCHANGED extVars
    /\ UNCHANGED <<now, pc, paths, other_files, papers, records, moves, out,
                   chained, last>>

InitAdd ==
    /\ fs \in Layouts(AddFiles \ {None}, MaxFiles - 1, {Doc(PDF)})
    /\ now = 0
    /\ pc = "idle"
    /\ cmd = NoCommand
    /\ status = "ok"
    /\ fs0 = fs
    /\ NoRun

NextAdd == Tick \/ Add

SpecAdd == InitAdd /\ [][NextAdd]_vars

-----------------------------------------------------------------------------
(* Repositories found on disk when a reconciliation command starts *)

Dot(stem, ext) == stem \o <<".">> \o ext

NotePaths == {Path("root", Dot(s, MD)) : s \in {A, B, C}}

DocPaths == {Path("root", Dot(A, PDF)), Path("root", Dot(B, PDF)),
             Path("root", Dot(B, TXT)), Path("nested", Dot(B, PDF))}

\* titles of the notes on disk: "a/" derives a.md
DiskTitles == {<<"a", "/">>, B}

NoteContents ==
    {Note(t, fn, 0, 0, "n") : t \in DiskTitles, fn \in {None} \cup DocPaths}
        \cup {Bad}

DocContents == {Doc(PDF), Doc(<<>>)}

\* at most MaxFiles files: notes and broken notes in the root, documents in
\* the root and in the nested directory
Repos ==
    {r \in {n @@ d : n \in Layouts(NotePaths, MaxFiles, NoteContents),
                     d \in Layouts(DocPaths, MaxFiles, DocContents)} :
        Cardinality(DOMAIN r) <= MaxFiles}

-----------------------------------------------------------------------------
(* Repo::update *)

\* the file name update stores: the file must live under the root, and the
\* last component of its path is kept
UpdateFilename(f, file) ==
    IF ~IsFile(f, file) THEN [err |-> "Io"]
    ELSE IF ~UnderRoot(file) THEN [err |-> "OutsideRoot"]
    ELSE [err |-> "", filename |-> Path("root", file.name)]

\* a variant of Update that writes the paper as the caller loaded it
UpdateStale(f, paper, file, t) ==
    LET fn == UpdateFilename(f, file)
        cur == GetPaper(f, paper.path)
    IN  IF fn.err # "" THEN [status |-> fn.err, fs |-> f]
        ELSE IF cur.err # "" THEN [status |-> cur.err, fs |-> f]
        ELSE [status |-> "ok",
              fs |-> WritePaper(f, paper.path,
                                [paper.meta EXCEPT !.filename = fn.filename],
                                paper.notes, t)]

\* update: the record on disk at paper.path is read again, its filename is
\* set, and it is written back
Update(f, paper, file, t) ==
    LET fn == UpdateFilename(f, file)
        cur == GetPaper(f, paper.path)
    IN  IF fn.err # "" THEN [status |-> fn.err, fs |-> f]
        ELSE IF cur.err # "" THEN [status |-> cur.err, fs |-> f]
        ELSE [status |-> "ok",
              fs |-> WritePaper(f, paper.path,
                                [cur.meta EXCEPT !.filename = fn.filename],
                                cur.notes, t)]

-----------------------------------------------------------------------------
(* doctor *)

\* paths.sort()
RECURSIVE Sorted(_)
Sorted(S) ==
    IF S = {} THEN <<>>
    ELSE LET m == CHOOSE x \in S : \A y \in S \ {x} : NameLess(x.name, y.name)
         IN  <<m>> \o Sorted(S \ {m})

\* read_dir(root): the files that are direct entries of the root
RootFiles(f) == {p \in DOMAIN f : p.dir = "root"}

Move(from, to, f) == [from |-> from, to |-> to, clobber |-> from # to /\ IsFile(f, to)]

Report(kind, path) == [kind |-> kind, path |-> path]

\* other_files.entry(path).or_default()
OrDefault(m, p) == IF p \in DOMAIN m THEN m ELSE (p :> FALSE) @@ m

\* other_files.insert(path, true)
Insert(m, p) == (p :> TRUE) @@ m

IsMd(p) == HasExtension(p.name) /\ Extension(p.name) = MD

\* a variant of DoctorMoves that does not look at --fix
DoctorMovesAlways(wrong, fix) == wrong

\* a wrong path is reported, and moved only with --fix
DoctorMoves(wrong, fix) == wrong /\ fix

\* the state of the run after a step: st is the state before it
Step(st, f, mv, o, of, result, l) ==
    [st EXCEPT !.fs = f, !.moves = mv, !.out = o, !.other_files = of,
               !.status = result, !.last = l]

\* the loop body of doctor for the paper loaded from a .md path: the note
\* is checked first, then the document the paper names
DoctorCheck(st, paper, fix, t) ==
    LET expected_path == GetPath(paper.meta)
        current_path == paper.path
        wrong == expected_path # current_path
        moved == DoctorMoves(wrong, fix)
        fs1 == IF moved THEN Rename(st.fs, current_path, expected_path)
               ELSE st.fs
        moves1 == IF moved
                  THEN Append(st.moves, Move(current_path, expected_path, st.fs))
                  ELSE st.moves
        out1 == IF wrong
                THEN st.out \cup {Report("NoteAtWrongPath", current_path)}
                ELSE st.out
        note1 == IF moved THEN expected_path ELSE current_path
        filename == paper.meta.filename
        expected_path_document ==
            Path("root", WithExtension(expected_path.name,
                                       Extension(filename.name)))
        wrong_document == filename # expected_path_document
        out2 == IF wrong_document
                THEN out1 \cup {Report("FileAtWrongPath", filename)}
                ELSE out1
        fs2 == Rename(fs1, filename, expected_path_document)
        u == Update(fs2, paper, expected_path_document, t)
    IN  IF filename = None
        THEN Step(st, fs1, moves1, out1, st.other_files, "running",
                  [note |-> note1, doc |-> None])
        ELSE IF ~IsFile(fs1, filename)
        THEN Step(st, fs1, moves1,
                  out1 \cup {Report("FileMissing", current_path)},
                  st.other_files, "running", [note |-> note1, doc |-> None])
        ELSE IF ~DoctorMoves(wrong_document, fix)
        THEN Step(st, fs1, moves1, out2, Insert(st.other_files, filename),
                  "running", [note |-> note1, doc |-> None])
        ELSE Step(st, u.fs,
                  Append(moves1, Move(filename, expected_path_document, fs1)),
                  out2, Insert(st.other_files, filename),
                  IF u.status = "ok" THEN "running" ELSE u.status,
                  [note |-> note1, doc |-> expected_path_document])

\* a .md path: an error of get_paper ends the command, and so does an
\* error of update
DoctorVisit(st, path, fix, t) ==
    LET paper == GetPaper(st.fs, path)
    IN  IF paper.err # ""
        THEN [st EXCEPT !.status = paper.err, !.last = NoPaper]
        ELSE DoctorCheck(st, paper, fix, t)

RunState == [fs |-> fs, moves |-> moves, out |-> out,
             other_files |-> other_files, status |-> status, last |-> last]

DoctorStart ==
    /\ pc = "idle"
    /\ \E fix \in BOOLEAN : cmd' = Command("doctor", None, <<>>, fix)
    /\ pc' = "doctor"
    /\ status' = "running"
    /\ fs0' = fs
    /\ paths' = Sorted(RootFiles(fs))
    /\ other_files' = <<>>
    /\ moves' = <<>>
    /\ out' = {}
    /\ last' = NoPaper
    /\ UNCHANGED coreVars
    /\ UNCHANGED extVars
    /\ UNCHANGED <<fs, now, papers, records, chained>>

DoctorPaper ==
    /\ pc = "doctor"
    /\ paths # <<>>
    /\ IsMd(Head(paths))
    /\ LET r == DoctorVisit(RunState, Head(paths), cmd.flag, now)
       IN  /\ fs' = r.fs
           /\ moves' = r.moves
           /\ out' = r.out
           /\ other_files' = r.other_files
           /\ status' = r.status
           /\ last' = r.last
           /\ pc' = IF r.status = "running" THEN "doctor" ELSE "idle"
    /\ paths' = Tail(paths)
    /\ UNCHANGED coreVars
    /\ UNCHANGED extVars
    /\ UNCHANGED <<now, cmd, fs0, papers, records, chained>>

\* the loop body for any other file
DoctorOtherFile ==
    /\ pc = "doctor"
    /\ paths # <<>>
    /\ ~IsMd(Head(paths))
    /\ other_files' = OrDefault(other_files, Head(paths))
    /\ paths' = Tail(paths)
    /\ UNCHANGED coreVars
    /\ UNCHANGED extVars
    /\ UNCHANGED <<fs, now, pc, cmd, status, fs0, papers, records, moves, out,
                   chained, last>>

\* after the loop the unmatched files are reported
DoctorEnd ==
    /\ pc = "doctor"
    /\ paths = <<>>
    /\ out' = out \cup {Report("Unmatched", p) :
                            p \in {q \in DOMAIN other_files : ~other_files[q]}}
    /\ pc' = "idle"
    /\ status' = "ok"
    /\ UNCHANGED coreVars
    /\ UNCHANGED extVars
    /\ UNCHANGED <<fs, now, cmd, fs0, paths, other_files, papers, records,
                   moves, chained, last>>

InitDoctor ==
    /\ fs \in Repos
    /\ now = 1
    /\ pc = "idle"
    /\ cmd = NoCommand
    /\ status = "ok"
    /\ fs0 = fs
    /\ NoRun

NextDoctor == DoctorStart \/ DoctorPaper \/ DoctorOtherFile \/ DoctorEnd

SpecDoctor == InitDoctor /\ [][NextDoctor]_vars

-----------------------------------------------------------------------------
(* rename-files *)

\* Strategy::rename: the title without the prohibited characters; a note
\* always carries a title
StrategyRename(strategy, meta) ==
    IF strategy = "Title" THEN [err |-> "", name |-> Strip(meta.title)]
    ELSE [err |-> "unknown strategy"]

\* all_papers: the .md files that are direct entries of the root and parse
AllPapers(f) ==
    {GetPaper(f, p) : p \in {q \in RootFiles(f) : IsMd(q) /\ IsNote(f, q)}}

\* infer::get_from_path, falling back to the extension of the path
NewExtension(f, path) ==
    IF f[path].kind = "doc" /\ f[path].sniff # <<>> THEN f[path].sniff
    ELSE Extension(path.name)

\* a variant of ShouldRenameDocument without the test of new_path.exists()
ShouldRenameDocumentOver(f, path, new_path) == new_path # path

\* a document is moved when the new path differs and holds no file
ShouldRenameDocument(f, path, new_path) ==
    new_path # path /\ ~IsFile(f, new_path)

\* a note is moved when no file is at the new path and the path differs
ShouldRenameNote(f, paper_path, new_paper_path) ==
    ~IsFile(f, new_paper_path) /\ paper_path # new_paper_path

\* the document part of the loop body: the state after it
RenameDocument(st, paper, new_name, dry_run, t) ==
    LET path == paper.meta.filename
        new_path == Path(path.dir,
                         WithExtension(new_name, NewExtension(st.fs, path)))
        fs1 == Rename(st.fs, path, new_path)
        u == Update(fs1, paper, new_path, t)
    IN  IF path = None \/ ~IsFile(st.fs, path) THEN st
        ELSE IF ~ShouldRenameDocument(st.fs, path, new_path) THEN st
        ELSE IF dry_run
        THEN [st EXCEPT !.out = @ \cup {Report("Renaming", path)}]
        ELSE [st EXCEPT !.fs = u.fs,
                        !.out = @ \cup {Report("Renaming", path)},
                        !.moves = Append(@, Move(path, new_path, st.fs)),
                        !.status = IF u.status = "ok" THEN "running" ELSE "panic",
                        !.last = [@ EXCEPT !.doc = new_path]]

\* a variant of RenameNote that moves the note in a dry run too
RenameNoteAlways(st, paper, new_name, dry_run) ==
    LET new_paper_path == Path("root", WithExtension(new_name, MD))
        paper_path == paper.path
    IN  IF ~ShouldRenameNote(st.fs, paper_path, new_paper_path) THEN st
        ELSE IF ~IsFile(st.fs, paper_path)
        THEN [st EXCEPT !.out = @ \cup {Report("Renaming", paper_path)},
                        !.status = "panic"]
        ELSE [st EXCEPT !.fs = Rename(@, paper_path, new_paper_path),
                        !.out = @ \cup {Report("Renaming", paper_path)},
                        !.moves = Append(@, Move(paper_path, new_paper_path,
                                                 st.fs)),
                        !.last = [@ EXCEPT !.note = new_paper_path]]

\* the note part of the loop body
RenameNote(st, paper, new_name, dry_run) ==
    LET new_paper_path == Path("root", WithExtension(new_name, MD))
        paper_path == paper.path
    IN  IF ~ShouldRenameNote(st.fs, paper_path, new_paper_path) THEN st
        ELSE IF dry_run
        THEN [st EXCEPT !.out = @ \cup {Report("Renaming", paper_path)}]
        ELSE IF ~IsFile(st.fs, paper_path)
        THEN [st EXCEPT !.out = @ \cup {Report("Renaming", paper_path)},
                        !.status = "panic"]
        ELSE [st EXCEPT !.fs = Rename(@, paper_path, new_paper_path),
                        !.out = @ \cup {Report("Renaming", paper_path)},
                        !.moves = Append(@, Move(paper_path, new_paper_path,
                                                 st.fs)),
                        !.last = [@ EXCEPT !.note = new_paper_path]]

\* the loop body for one paper: a paper without a new name is skipped, a
\* failed rename or update panics
RenameVisit(st, paper, strategy, dry_run, t) ==
    LET new_name == StrategyRename(strategy, paper.meta)
        st0 == [st EXCEPT !.last = [note |-> paper.path, doc |-> None]]
        st1 == RenameDocument(st0, paper, new_name.name, dry_run, t)
    IN  IF new_name.err # "" THEN st0
        ELSE IF st1.status = "panic" THEN st1
        ELSE RenameNote(st1, paper, new_name.name, dry_run)

RenameStart ==
    /\ pc = "idle"
    /\ \E dry_run \in BOOLEAN : cmd' = Command("rename-files", None, <<>>, dry_run)
    /\ chained' = (cmd.name = "rename-files" /\ ~cmd.flag /\ status = "ok")
    /\ pc' = "rename"
    /\ status' = "running"
    /\ fs0' = fs
    /\ papers' = AllPapers(fs)
    /\ moves' = <<>>
    /\ out' = {}
    /\ last' = NoPaper
    /\ UNCHANGED coreVars
    /\ UNCHANGED extVars
    /\ UNCHANGED <<fs, now, paths, other_files, records>>

\* the papers are visited in the order read_dir gave them, which is any
RenamePaper ==
    /\ pc = "rename"
    /\ \E paper \in papers :
        LET r == RenameVisit(RunState, paper, "Title", cmd.flag, now)
        IN  /\ fs' = r.fs
            /\ moves' = r.moves
            /\ out' = r.out
            /\ status' = r.status
            /\ last' = r.last
            /\ pc' = IF r.status = "running" THEN "rename" ELSE "idle"
            /\ papers' = papers \ {paper}
    /\ UNCHANGED coreVars
    /\ UNCHANGED extVars
    /\ UNCHANGED <<now, cmd, fs0, paths, other_files, records, chained>>

RenameEnd ==
    /\ pc = "rename"
    /\ papers = {}
    /\ pc' = "idle"
    /\ status' = "ok"
    /\ UNCHANGED coreVars
    /\ UNCHANGED extVars
    /\ UNCHANGED <<fs, now, cmd, fs0, paths, other_files, papers, records,
                   moves, out, chained, last>>

InitRename ==
    /\ fs \in Repos
    /\ now = 1
    /\ pc = "idle"
    /\ cmd = NoCommand
    /\ status = "ok"
    /\ fs0 = fs
    /\ NoRun

NextRename == RenameStart \/ RenamePaper \/ RenameEnd

SpecRename == InitRename /\ [][NextRename]_vars

-----------------------------------------------------------------------------
(* import *)

\* Repo::import: as add, for a record that is already formed; created_at is
\* the record's
RepoImport(f, meta, t) ==
    IF IsFile(f, GetPath(meta)) THEN [status |-> "AlreadyExists", fs |-> f]
    ELSE [status |-> "ok", fs |-> WritePaper(f, GetPath(meta), meta, "", t)]

\* the records of an export
ExportRecords ==
    {[title |-> title, filename |-> None, created_at |-> 0, modified_at |-> 0] :
        title \in Titles}

\* the sequences of at most n elements of S
RECURSIVE SeqsUpTo(_, _)
SeqsUpTo(S, n) ==
    IF n = 0 THEN {<<>>}
    ELSE LET shorter == SeqsUpTo(S, n - 1)
         IN  shorter \cup {Append(q, x) : q \in shorter, x \in S}

ImportStart ==
    /\ pc = "idle"
    /\ records' \in SeqsUpTo(ExportRecords, MaxRecords)
    /\ cmd' = Command("import", None, <<>>, FALSE)
    /\ pc' = "import"
    /\ status' = "running"
    /\ fs0' = fs
    /\ UNCHANGED coreVars
    /\ UNCHANGED extVars
    /\ UNCHANGED <<fs, now, paths, other_files, papers, moves, out, chained,
                   last>>

\* the loop body: repo.import(paper)? ends the command at the first error
ImportRecord ==
    /\ pc = "import"
    /\ records # <<>>
    /\ LET r == RepoImport(fs, Head(records), now)
       IN  /\ fs' = r.fs
           /\ status' = IF r.status = "ok" THEN "running" ELSE r.status
           /\ pc' = IF r.status = "ok" THEN "import" ELSE "idle"
    /\ records' = Tail(records)
    /\ UNCHANGED coreVars
    /\ UNCHANGED extVars
    /\ UNCHANGED <<now, cmd, fs0, paths, other_files, papers, moves, out,
                   chained, last>>

ImportEnd ==
    /\ pc = "import"
    /\ records = <<>>
    /\ pc' = "idle"
    /\ status' = "ok"
    /\ UNCHANGED coreVars
    /\ UNCHANGED extVars
    /\ UNCHANGED <<fs, now, cmd, fs0, paths, other_files, papers, records,
                   moves, out, chained, last>>

InitImport ==
    /\ fs = <<>>
    /\ now = 0
    /\ pc = "idle"
    /\ cmd = NoCommand
    /\ status = "ok"
    /\ fs0 = fs
    /\ NoRun

NextImport == Tick \/ ImportStart \/ ImportRecord \/ ImportEnd

SpecImport == InitImport /\ [][NextImport]_vars

-----------------------------------------------------------------------------
(* Repo::update after an edit of the note *)

\* what an editor can make of a note: new notes, or a new title as well
Edited(c) ==
    {[c EXCEPT !.notes = "e"],
     [c EXCEPT !.notes = "e", !.meta.title = B]}

\* a command loads the papers: the copies it works on
Load ==
    /\ pc = "idle"
    /\ papers' = AllPapers(fs)
    /\ cmd' = Command("load", None, <<>>, FALSE)
    /\ UNCHANGED coreVars
    /\ UNCHANGED extVars
    /\ UNCHANGED <<fs, now, pc, status, fs0, paths, other_files, records,
                   moves, out, chained, last>>

\* the note of a paper is edited on disk while the copies are held
Edit ==
    /\ pc = "idle"
    /\ \E p \in DOMAIN fs :
          /\ IsNote(fs, p)
          /\ fs[p].notes # "e"
          /\ \E c \in Edited(fs[p]) : fs' = With(fs, p, c)
          /\ cmd' = Command("edit", p, <<>>, FALSE)
    /\ UNCHANGED coreVars
    /\ UNCHANGED extVars
    /\ UNCHANGED <<now, pc, status, fs0, paths, other_files, papers,
                   records, moves, out, chained, last>>

\* repo.update(&paper, Some(&new_path)) with a loaded copy and a file
UpdateCall ==
    /\ pc = "idle"
    /\ \E paper \in papers, file \in DocPaths \cup {Path("neighbour", Dot(B, PDF))} :
          LET r == Update(fs, paper, file, now)
          IN  /\ fs' = r.fs
              /\ status' = r.status
              /\ cmd' = Command("update", file, paper.meta.title, FALSE)
              /\ last' = [note |-> paper.path, doc |-> file, at |-> now]
    /\ fs0' = fs
    /\ UNCHANGED coreVars
    /\ UNCHANGED extVars
    /\ UNCHANGED <<now, pc, paths, other_files, papers, records, moves, out,
                   chained>>

\* the repositories with one .md file, and documents that are what their
\* extension says
UpdateRepos ==
    {r \in Repos :
        /\ Cardinality({p \in DOMAIN r : IsMd(p)}) = 1
        /\ \A p \in DOMAIN r : r[p].kind = "doc" => r[p].sniff = PDF}

InitUpdate ==
    /\ fs \in UpdateRepos
    /\ now = 1
    /\ pc = "idle"
    /\ cmd = NoCommand
    /\ status = "ok"
    /\ fs0 = fs
    /\ NoRun

NextUpdate == Load \/ Edit \/ UpdateCall

SpecUpdate == InitUpdate /\ [][NextUpdate]_vars

-----------------------------------------------------------------------------
(* review schedule *)

\* the ticks of the clock in one day: the clock is finer than the whole
\* days that num_days counts
Day == 2

\* the last day a NaiveDateTime can hold, counted from the start of the
\* clock (the year 262143, about 95 million days away)
MaxDay == 95000000

\* Duration::num_days: the whole days of a duration, rounded towards zero
NumDays(d) == IF d >= 0 THEN d \div Day ELSE -((-d) \div Day)

\* powf(REVIEW_POWER).floor() as u64 of a number of days above one. A square
\* beyond the range of dates is held as MaxDay + 1: every such wait is out
\* of the range
Squared(days) == IF days > MaxDay \div days THEN MaxDay + 1 ELSE days * days

\* a variant of WaitDays without the floor of two days
WaitDaysNoFloor(m) ==
    IF m.last_review = <<>> \/ m.next_review = <<>> THEN 1
    ELSE LET days_since_last == NumDays(m.next_review[1] - m.last_review[1])
         IN  days_since_last * days_since_last

\* a variant of WaitDays that always waits one day
WaitDaysAlwaysOne(m) == 1

\* wait_days of calculate_next_review_date
WaitDays(m) ==
    IF m.last_review = <<>> \/ m.next_review = <<>> THEN 1
    ELSE LET days_since_last == NumDays(m.next_review[1] - m.last_review[1])
         IN  IF days_since_last > 1 THEN Squared(days_since_last) ELSE 2

\* now + Days::new(wait_days) panics when the date is out of the range
OutOfRange(m, t) == t + WaitDays(m) * Day > MaxDay * Day

CalculateNextReviewDate(m, t) == t + WaitDays(m) * Day

UpdateReview(m, t) ==
    [last_review |-> m.next_review,
     next_review |-> Some(CalculateNextReviewDate(m, t))]

\* a variant of IsReviewable that takes a paper due now
IsReviewableWhenDue(m, t) == m.next_review = <<>> \/ m.next_review[1] <= t

\* is_reviewable: the next review date is in the past
IsReviewable(m, t) == m.next_review = <<>> \/ m.next_review[1] < t

\* the review state a note can hold before its first review here
InitialReviews ==
    {NoReview,
     [last_review |-> Some(0), next_review |-> <<>>],
     [last_review |-> <<>>, next_review |-> Some(1)],
     [last_review |-> Some(0), next_review |-> Some(3)]}

\* time passes between two commands
Elapse ==
    /\ now < MaxClock
    /\ now' = now + 1
    /\ UNCHANGED cliVars
    /\ UNCHANGED coreVars
    /\ UNCHANGED extVars

\* review of the paper at a given path: update_review, then the note is
\* written
Review ==
    /\ Len(waits) < MaxReviews
    /\ cmd' = Command("review", None, <<>>, FALSE)
    /\ IF OutOfRange(reviewed, now)
       THEN /\ status' = "Panic"
            /\ UNCHANGED <<reviewed, waits>>
       ELSE /\ status' = "ok"
            /\ reviewed' = UpdateReview(reviewed, now)
            /\ waits' = Append(waits,
                               [at |-> now, days |-> WaitDays(reviewed),
                                before |-> reviewed,
                                after |-> UpdateReview(reviewed, now)])
    /\ UNCHANGED <<fs, now, pc, fs0, paths, other_files, papers, records,
                   moves, out, chained, last, asked, db, listed>>
    /\ UNCHANGED extVars

\* the filter of the review loop: is the paper ready for review
Reviewable ==
    /\ asked' = [at |-> now, meta |-> reviewed,
                 result |-> IsReviewable(reviewed, now), asked |-> TRUE]
    /\ UNCHANGED cliVars
    /\ UNCHANGED <<now, reviewed, waits, db, listed>>
    /\ UNCHANGED extVars

InitReview ==
    /\ fs = <<>>
    /\ now = 0
    /\ pc = "idle"
    /\ cmd = NoCommand
    /\ status = "ok"
    /\ fs0 = fs
    /\ paths = <<>>
    /\ other_files = <<>>
    /\ papers = {}
    /\ records = <<>>
    /\ moves = <<>>
    /\ out = {}
    /\ chained = FALSE
    /\ last = NoPaper
    /\ reviewed \in InitialReviews
    /\ waits = <<>>
    /\ asked = NoAsk
    /\ db = <<>>
    /\ listed = NoListing
    /\ NoExt

NextReview == Elapse \/ Review \/ Reviewable

SpecReview == InitReview /\ [][NextReview]_vars

-----------------------------------------------------------------------------
(* cli: the review loop over the papers that are ready for review *)

\* the papers that pass the filter of the loop at time t
ReviewablePapers(metas, t) ==
    {i \in DOMAIN metas : IsReviewable(metas[i], t)}

\* a variant of ReviewPaper that does not write the paper
ReviewPaperNotWritten(metas, p, edited, t) == metas

\* the review closure: the paper is read again after the edit, update_review
\* sets its dates and the paper is written
ReviewPaper(metas, p, edited, t) ==
    [metas EXCEPT ![p] = UpdateReview(edited, t)]

\* the loop as its first iteration finds it: the time and the papers ready
\* for review are written down
Entered ==
    IF pc = "idle"
    THEN [loop EXCEPT !.start = now,
                      !.due = ReviewablePapers(loop.metas, now)]
    ELSE loop

\* what a step of the loop leaves alone
LoopFrame ==
    UNCHANGED <<fs, now, fs0, paths, other_files, papers, records, moves, out,
                chained, last, reviewed, asked, db, listed, calls, renamed,
                parsed>>

\* no paper is ready for review: break
LoopBreak ==
    /\ pc \in {"idle", "loop"}
    /\ ReviewablePapers(loop.metas, now) = {}
    /\ loop' = [Entered EXCEPT !.ended = now]
    /\ pc' = "done"
    /\ status' = "ok"
    /\ cmd' = Command("review", None, <<>>, FALSE)
    /\ UNCHANGED waits
    /\ LoopFrame

\* select_paper returns one of the papers ready for review
LoopSelect ==
    /\ pc \in {"idle", "loop"}
    /\ \E p \in ReviewablePapers(loop.metas, now) :
          loop' = [Entered EXCEPT !.selected = p]
    /\ pc' = "review"
    /\ cmd' = Command("review", None, <<>>, FALSE)
    /\ UNCHANGED <<status, waits>>
    /\ LoopFrame

\* select_paper returns None: the command fails
LoopAbort ==
    /\ pc \in {"idle", "loop"}
    /\ ReviewablePapers(loop.metas, now) # {}
    /\ loop' = [Entered EXCEPT !.ended = now]
    /\ pc' = "done"
    /\ status' = "No paper selected"
    /\ cmd' = Command("review", None, <<>>, FALSE)
    /\ UNCHANGED waits
    /\ LoopFrame

\* the editor returns and the note reads as a paper, with the dates as they
\* were or taken out by the edit: the review is written
LoopReview ==
    /\ pc = "review"
    /\ \E edited \in {loop.metas[loop.selected], NoReview} :
          IF OutOfRange(edited, now)
          THEN /\ status' = "Panic"
               /\ pc' = "done"
               /\ loop' = [loop EXCEPT !.ended = now]
               /\ UNCHANGED waits
          ELSE /\ loop' = [loop EXCEPT
                              !.metas = ReviewPaper(loop.metas, loop.selected,
                                                    edited, now)]
               /\ waits' = Append(waits,
                                  [at |-> now, paper |-> loop.selected,
                                   days |-> WaitDays(edited),
                                   before |-> edited,
                                   after |-> UpdateReview(edited, now)])
               /\ pc' = "loop"
               /\ UNCHANGED status
    /\ UNCHANGED cmd
    /\ LoopFrame

\* the editor returns and the note does not read as a paper any more:
\* get_paper fails and the command with it
LoopEditBroken ==
    /\ pc = "review"
    /\ status' = "NoFrontMatter"
    /\ pc' = "done"
    /\ loop' = [loop EXCEPT !.ended = now]
    /\ UNCHANGED <<cmd, waits>>
    /\ LoopFrame

\* the review state of the notes when the loop begins: never reviewed, due
\* at the first tick, or reviewed before and due a day later
LoopReviews ==
    {NoReview,
     [last_review |-> <<>>, next_review |-> Some(1)],
     [last_review |-> Some(0), next_review |-> Some(3)]}

InitLoop ==
    /\ fs = <<>>
    /\ now = 0
    /\ pc = "idle"
    /\ cmd = NoCommand
    /\ status = "ok"
    /\ fs0 = fs
    /\ paths = <<>>
    /\ other_files = <<>>
    /\ papers = {}
    /\ records = <<>>
    /\ moves = <<>>
    /\ out = {}
    /\ chained = FALSE
    /\ last = NoPaper
    /\ reviewed = NoReview
    /\ waits = <<>>
    /\ asked = NoAsk
    /\ db = <<>>
    /\ listed = NoListing
    /\ calls = <<>>
    /\ renamed = NoRename
    /\ parsed = NoIds
    /\ \E metas \in SeqsUpTo(LoopReviews, MaxPapers) :
          loop = [metas |-> metas, first |-> metas, start |-> 0, ended |-> 0,
                  due |-> {}, selected |-> 0]

NextLoop ==
    \/ Elapse
    \/ LoopBreak
    \/ LoopSelect
    \/ LoopAbort
    \/ LoopReview
    \/ LoopEditBroken

SpecLoop == InitLoop /\ [][NextLoop]_vars

-----------------------------------------------------------------------------
(* papers-core: Repo::list *)

\* to_lowercase, for the letters of the model
LowerChar(c) == IF c = "A" THEN "a" ELSE IF c = "B" THEN "b" ELSE c

ToLowercase(str) == [i \in DOMAIN str |-> LowerChar(str[i])]

\* str.contains(pat)
Contains(str, pat) ==
    \E i \in 0..(Len(str) - Len(pat)) : SubSeq(str, i + 1, i + Len(pat)) = pat

\* the set of the elements of a Vec
Range(v) == {v[i] : i \in DOMAIN v}

Label(key, value) == [key |-> key, value |-> value]

\* BTreeSet<Label>::contains: the set is searched with Ord for Label, which
\* compares the keys
LabelsContain(labels, l) == \E x \in labels : x.key = l.key

\* a variant of TagsMatch that passes a paper holding any requested tag
TagsMatchAny(tags, match_tags) ==
    match_tags = {} \/ \E t \in match_tags : t \in tags

\* match_tags.iter().all(|t| tags.contains(t))
TagsMatch(tags, match_tags) == \A t \in match_tags : t \in tags

\* a row of the papers table with the rows of the authors, tags, labels and
\* notes tables that belong to it
Row(title, filename, deleted, created_at, modified_at, authors, tags, labels, notes) ==
    [title |-> title, filename |-> filename, deleted |-> deleted,
     created_at |-> created_at, modified_at |-> modified_at,
     authors |-> authors, tags |-> tags, labels |-> labels, notes |-> notes]

\* the Paper built from the row with the given id
PaperOf(d, id) ==
    [id |-> id, title |-> d[id].title, filename |-> d[id].filename,
     deleted |-> d[id].deleted, created_at |-> d[id].created_at,
     modified_at |-> d[id].modified_at, authors |-> d[id].authors,
     tags |-> d[id].tags, labels |-> d[id].labels, notes |-> d[id].notes]

\* the body of the loop of list: the paper is pushed unless a filter
\* continues.
Listable(d, id, q) ==
    /\ q.include_deleted \/ ~d[id].deleted
    /\ q.match_ids = <<>> \/ id \in Range(q.match_ids)
    /\ q.match_file = <<>> \/
          /\ d[id].filename # None
          /\ Contains(ToLowercase(RelativePath(d[id].filename)),
                      ToLowercase(q.match_file[1]))
    /\ q.match_title = <<>> \/
          /\ d[id].title # <<>>
          /\ Contains(ToLowercase(d[id].title[1]),
                      ToLowercase(q.match_title[1]))
    /\ \A a \in q.match_authors : a \in d[id].authors
    /\ TagsMatch(d[id].tags, q.match_tags)
    /\ \A l \in q.match_labels : LabelsContain(d[id].labels, l)

\* list: the papers that pass, in the order of the table
RepoList(d, q) ==
    LET ids == SelectSeq([i \in 1..Len(d) |-> i],
                         LAMBDA id : Listable(d, id, q))
    IN  [j \in DOMAIN ids |-> PaperOf(d, ids[j])]

\* the arguments of list
Queries ==
    [match_ids : {<<>>, <<1>>},
     match_file : {<<>>, <<C>>},
     match_title : {<<>>, << <<"A">> >>},
     match_authors : {{}, {"x"}},
     match_tags : SUBSET {"t1", "t2"},
     match_labels : {{}, {Label("k", "v1")}, {Label("k", "v2")}},
     include_deleted : BOOLEAN]

\* the rows of the tables before list is called: a live paper with title,
\* file and author, or a removed paper without them; with tags and a label
ListRows ==
    {Row(<< <<"A", "b">> >>, Path("root", Dot(B, PDF)), FALSE, 0, 0, {"x"},
         tags, labels, <<>>) :
        tags \in {{}, {"t1"}, {"t1", "t2"}},
        labels \in {{}, {Label("k", "v1")}}}
    \cup
    {Row(<<>>, None, TRUE, 0, 0, {}, tags, labels, <<>>) :
        tags \in {{}, {"t1"}, {"t1", "t2"}},
        labels \in {{}, {Label("k", "v1")}}}

\* the list command: one call of list, whose result is printed; the tables
\* are not changed, so a later call has nothing new to show
List ==
    /\ ~listed.called
    /\ \E q \in Queries :
          listed' = [called |-> TRUE, query |-> q, result |-> RepoList(db, q)]
    /\ UNCHANGED cliVars
    /\ UNCHANGED <<now, reviewed, waits, asked, db>>
    /\ UNCHANGED extVars

InitList ==
    /\ fs = <<>>
    /\ now = 0
    /\ pc = "idle"
    /\ cmd = NoCommand
    /\ status = "ok"
    /\ fs0 = fs
    /\ paths = <<>>
    /\ other_files = <<>>
    /\ papers = {}
    /\ records = <<>>
    /\ moves = <<>>
    /\ out = {}
    /\ chained = FALSE
    /\ last = NoPaper
    /\ reviewed = NoReview
    /\ waits = <<>>
    /\ asked = NoAsk
    /\ db \in SeqsUpTo(ListRows, MaxPapers)
    /\ listed = NoListing
    /\ NoExt

NextList == List

SpecList == InitList /\ [][NextList]_vars

-----------------------------------------------------------------------------
(* papers-core: the operations of Repo that write the tables *)

\* the result of an operation of Repo on the tables d: id is the row written
Done(result, d, id) == [status |-> result, db |-> d, id |-> id]

\* Repo::add: the row is inserted with modified_at = now_naive() and with
\* the created_at the database gives it, which is the time of the insert
DbAdd(d, f, file, title, authors, tags, labels, t) ==
    LET fn == AddFilename(f, file)
    IN  IF fn.err # "" THEN Done(fn.err, d, 0)
        ELSE Done("ok",
                  Append(d, Row(title, fn.filename, FALSE, t, t, authors,
                                tags, labels, <<>>)),
                  Len(d) + 1)

\* Repo::import: the row is inserted with the created_at and the
\* modified_at of the paper, and removed when the paper was removed
DbImport(d, paper) ==
    Done("ok",
         Append(d, Row(paper.title, paper.filename, paper.deleted,
                       paper.created_at, paper.modified_at, paper.authors,
                       paper.tags, paper.labels, paper.notes)),
         Len(d) + 1)

\* Repo::update: title is <<>> to keep the title and <<x>> to set it to x;
\* a file name of None keeps the file name; no row with the id is no error
DbUpdate(d, f, paper_id, file, title, t) ==
    LET fn == IF file = None THEN [err |-> "", filename |-> None]
              ELSE UpdateFilename(f, file)
    IN  IF fn.err # "" THEN Done(fn.err, d, 0)
        ELSE IF paper_id \notin DOMAIN d THEN Done("ok", d, 0)
        ELSE Done("ok",
                  [d EXCEPT ![paper_id] =
                      [@ EXCEPT !.filename = IF fn.filename = None THEN @
                                             ELSE fn.filename,
                                !.title = IF title = <<>> THEN @ ELSE title[1],
                                !.modified_at = t]],
                  paper_id)

\* the note of a paper after update_paper
UpdatedNotes(current, original_notes, updated_notes) ==
    IF original_notes = <<>> /\ updated_notes = <<>> THEN current
    ELSE IF original_notes = <<>> THEN updated_notes
    ELSE IF updated_notes = <<>> THEN <<"">>
    ELSE IF original_notes # updated_notes THEN updated_notes
    ELSE current

\* a variant of update_paper that looks at created_at after it wrote the row
DbUpdatePaperLate(d, original, updated) ==
    IF original.id # updated.id THEN Done("IdsNotEqual", d, 0)
    ELSE IF original.deleted # updated.deleted THEN Done("CannotDelete", d, 0)
    ELSE Done(IF original.created_at # updated.created_at
              THEN "CannotUpdateCreatedAt" ELSE "ok",
              [d EXCEPT ![updated.id] =
                  [@ EXCEPT !.title = updated.title,
                            !.modified_at = updated.modified_at,
                            !.created_at = updated.created_at]],
              updated.id)

\* Repo::update_paper: the row takes title, file name and modified_at of
\* the updated paper; tags, labels and authors are replaced when they differ
DbUpdatePaper(d, original, updated) ==
    IF original.id # updated.id THEN Done("IdsNotEqual", d, 0)
    ELSE IF original.deleted # updated.deleted THEN Done("CannotDelete", d, 0)
    ELSE IF original.created_at # updated.created_at
    THEN Done("CannotUpdateCreatedAt", d, 0)
    ELSE Done("ok",
              [d EXCEPT ![updated.id] =
                  [@ EXCEPT
                      !.title = updated.title,
                      !.filename = IF updated.filename = None THEN @
                                   ELSE updated.filename,
                      !.modified_at = updated.modified_at,
                      !.tags = IF original.tags # updated.tags
                               THEN (@ \ original.tags) \cup updated.tags
                               ELSE @,
                      !.labels = IF original.labels # updated.labels
                                 THEN (@ \ original.labels) \cup updated.labels
                                 ELSE @,
                      !.authors = IF original.authors # updated.authors
                                  THEN (@ \ original.authors)
                                           \cup updated.authors
                                  ELSE @,
                      !.notes = UpdatedNotes(@, original.notes,
                                             updated.notes)]],
              updated.id)

\* Repo::remove: the row is marked as deleted
DbRemove(d, paper_id) ==
    IF paper_id \notin DOMAIN d THEN Done("ok", d, 0)
    ELSE Done("ok", [d EXCEPT ![paper_id].deleted = TRUE], paper_id)

\* the files of the test fixture: a document in the root, in the nested
\* directory and in the neighbour of the root
FixtureFiles ==
    [p \in {Path("root", Dot(B, PDF)), Path("nested", Dot(B, PDF)),
            Path("neighbour", Dot(B, PDF))} |-> Doc(PDF)]

\* the papers of an export: one as it was added, one removed after a change
ImportPapers ==
    {[id |-> 0, title |-> <<A>>, filename |-> None, deleted |-> FALSE,
      created_at |-> 0, modified_at |-> 0, authors |-> {}, tags |-> {},
      labels |-> {}, notes |-> <<>>],
     [id |-> 0, title |-> <<A>>, filename |-> None, deleted |-> TRUE,
      created_at |-> 0, modified_at |-> 1, authors |-> {}, tags |-> {"t1"},
      labels |-> {}, notes |-> <<"n">>]}

\* what a caller of update_paper makes of the paper it loaded at time t: a
\* new title with modified_at left, set to the time or typed in; new tags
\* and notes; or a change that update_paper refuses
Updates(original, t) ==
    {[original EXCEPT !.title = <<B>>, !.modified_at = m] :
        m \in {original.modified_at, t, 0}}
    \cup {[original EXCEPT !.tags = {"t1"}, !.notes = <<"e">>,
                           !.modified_at = t],
          [original EXCEPT !.created_at = t + 1],
          [original EXCEPT !.deleted = TRUE],
          [original EXCEPT !.id = original.id + 1]}

\* the operation made last on the tables: the row it wrote and the time
Wrote(op, id, t) == [note |-> None, doc |-> None, op |-> op, id |-> id, at |-> t]

\* the tables and the result after an operation
DbStep(op, r) ==
    /\ db' = r.db
    /\ status' = r.status
    /\ last' = Wrote(op, r.id, now)
    /\ UNCHANGED <<fs, now, pc, cmd, fs0, paths, other_files, papers,
                   records, moves, out, chained, reviewed, waits, asked,
                   listed>>
    /\ UNCHANGED extVars

DbAddCall ==
    /\ Len(db) < MaxRows
    /\ \E file \in {None, Path("root", Dot(B, PDF))} :
          DbStep("add", DbAdd(db, fs, file, <<A>>, {}, {}, {}, now))

DbImportCall ==
    /\ Len(db) < MaxRows
    /\ \E paper \in ImportPapers : DbStep("import", DbImport(db, paper))

DbUpdateCall ==
    \E paper_id \in DOMAIN db,
       call \in {<<None, << <<B>> >> >>, <<Path("nested", Dot(B, PDF)), <<>> >>,
                 <<Path("neighbour", Dot(B, PDF)), <<>> >>} :
        DbStep("update", DbUpdate(db, fs, paper_id, call[1], call[2], now))

\* update_paper with a paper loaded by get_paper, which fails for a paper
\* that was removed
DbUpdatePaperCall ==
    \E paper_id \in DOMAIN db :
        /\ ~db[paper_id].deleted
        /\ \E updated \in Updates(PaperOf(db, paper_id), now) :
              DbStep("update_paper",
                     DbUpdatePaper(db, PaperOf(db, paper_id), updated))

DbRemoveCall ==
    \E paper_id \in DOMAIN db : DbStep("remove", DbRemove(db, paper_id))

\* time passes between two operations
DbTick ==
    /\ now < MaxTime
    /\ now' = now + 1
    /\ UNCHANGED cliVars
    /\ UNCHANGED coreVars
    /\ UNCHANGED extVars

InitDb ==
    /\ fs = FixtureFiles
    /\ now = 0
    /\ pc = "idle"
    /\ cmd = NoCommand
    /\ status = "ok"
    /\ fs0 = fs
    /\ paths = <<>>
    /\ other_files = <<>>
    /\ papers = {}
    /\ records = <<>>
    /\ moves = <<>>
    /\ out = {}
    /\ chained = FALSE
    /\ last = Wrote("none", 0, 0)
    /\ reviewed = NoReview
    /\ waits = <<>>
    /\ asked = NoAsk
    /\ db = <<>>
    /\ listed = NoListing
    /\ NoExt

NextDb ==
    \/ DbTick
    \/ DbAddCall
    \/ DbImportCall
    \/ DbUpdateCall
    \/ DbUpdatePaperCall
    \/ DbRemoveCall

SpecDb == InitDb /\ [][NextDb]_vars

-----------------------------------------------------------------------------
(* papers-core: the tables of authors, tags and labels, and get_paper *)

\* a variant of GetPaperById that does not look at the deleted column
GetPaperByIdAny(d, paper_id) ==
    IF paper_id \notin DOMAIN d THEN [err |-> "NotFound"]
    ELSE [err |-> "", paper |-> PaperOf(d, paper_id)]

\* Repo::get_paper: the row is loaded, a removed paper is not found
GetPaperById(d, paper_id) ==
    IF paper_id \notin DOMAIN d THEN [err |-> "NotFound"]
    ELSE IF d[paper_id].deleted THEN [err |-> "Paper not found"]
    ELSE [err |-> "", paper |-> PaperOf(d, paper_id)]

\* a variant of InsertLabels whose conflict target is the whole row
RECURSIVE InsertLabelsByValue(_, _)
InsertLabelsByValue(rows, labels) ==
    IF labels = <<>> THEN rows
    ELSE InsertLabelsByValue(rows \cup {Head(labels)}, Tail(labels))

\* Db::insert_labels: one INSERT for every label in turn, which does
\* nothing when the paper has a label with the key
RECURSIVE InsertLabels(_, _)
InsertLabels(rows, labels) ==
    IF labels = <<>> THEN rows
    ELSE InsertLabels(IF \E x \in rows : x.key = Head(labels).key
                      THEN rows
                      ELSE rows \cup {Head(labels)},
                      Tail(labels))

\* Db::insert_tags and Db::insert_authors: one INSERT for every element,
\* which does nothing when the paper has it
InsertAll(rows, elements) == rows \cup Range(elements)

\* Repo::add_labels
DbAddLabels(d, paper_id, labels) ==
    Done("ok", [d EXCEPT ![paper_id].labels = InsertLabels(@, labels)],
         paper_id)

\* Repo::remove_labels: the labels with the keys are deleted
DbRemoveLabels(d, paper_id, keys) ==
    Done("ok",
         [d EXCEPT ![paper_id].labels = {x \in @ : x.key \notin Range(keys)}],
         paper_id)

\* Repo::add_tags
DbAddTags(d, paper_id, tags) ==
    Done("ok", [d EXCEPT ![paper_id].tags = InsertAll(@, tags)], paper_id)

\* Repo::add_authors
DbAddAuthors(d, paper_id, authors) ==
    Done("ok", [d EXCEPT ![paper_id].authors = InsertAll(@, authors)],
         paper_id)

\* the operation made last on the tables, with the elements it was given
WroteAll(op, id, t, given) ==
    [note |-> None, doc |-> None, op |-> op, id |-> id, at |-> t,
     given |-> given]

\* the tables and the result after an operation on authors, tags or labels
TableStep(op, r, given) ==
    /\ db' = r.db
    /\ status' = r.status
    /\ last' = WroteAll(op, r.id, now, given)
    /\ UNCHANGED <<fs, now, pc, cmd, fs0, paths, other_files, papers,
                   records, moves, out, chained, reviewed, waits, asked,
                   listed>>
    /\ UNCHANGED extVars

\* the label lists given to add_labels and the key lists given to
\* remove_labels
LabelLists ==
    {<<Label("k", "v2")>>, <<Label("k", "v1"), Label("k", "v2")>>}

\* add with tags and labels, as the sets the caller built
TableAddCall ==
    /\ Len(db) < MaxRows + 1
    /\ \E tags \in {{}, {"t1"}}, labels \in {{}, {Label("k", "v1")}} :
          TableStep("add", DbAdd(db, fs, None, <<A>>, {}, tags, labels, now),
                    <<>>)

AddLabelsCall ==
    \E paper_id \in DOMAIN db, labels \in LabelLists :
        TableStep("add_labels", DbAddLabels(db, paper_id, labels), labels)

RemoveLabelsCall ==
    \E paper_id \in DOMAIN db, keys \in {<<"k">>} :
        TableStep("remove_labels", DbRemoveLabels(db, paper_id, keys), keys)

AddTagsCall ==
    \E paper_id \in DOMAIN db, tags \in {<<"t1">>} :
        TableStep("add_tags", DbAddTags(db, paper_id, tags), tags)

AddAuthorsCall ==
    \E paper_id \in DOMAIN db, authors \in {<<"x">>} :
        TableStep("add_authors", DbAddAuthors(db, paper_id, authors),
                  authors)

\* update with a title
TableUpdateCall ==
    \E paper_id \in DOMAIN db :
        TableStep("update", DbUpdate(db, fs, paper_id, None, << <<A>> >>, now),
                  <<>>)

\* import of a paper that was removed, with an author, a tag and a label
TableImportCall ==
    /\ Len(db) < MaxRows + 1
    /\ \E paper \in {[p EXCEPT !.labels = {Label("k", "v2")},
                                !.authors = {"x"}] :
                        p \in {q \in ImportPapers : q.deleted}} :
          TableStep("import", DbImport(db, paper), <<>>)

\* the tables hold one paper, added with a document, a tag and a label
InitTables ==
    /\ fs = FixtureFiles
    /\ now = 0
    /\ pc = "idle"
    /\ cmd = NoCommand
    /\ status = "ok"
    /\ fs0 = fs
    /\ paths = <<>>
    /\ other_files = <<>>
    /\ papers = {}
    /\ records = <<>>
    /\ moves = <<>>
    /\ out = {}
    /\ chained = FALSE
    /\ last = WroteAll("add", 1, 0, <<>>)
    /\ reviewed = NoReview
    /\ waits = <<>>
    /\ asked = NoAsk
    /\ db = DbAdd(<<>>, fs, Path("root", Dot(B, PDF)), <<C>>, {}, {"t1"},
                  {Label("k", "v1")}, 0).db
    /\ listed = NoListing
    /\ NoExt

NextTables ==
    \/ TableAddCall
    \/ TableImportCall
    \/ TableUpdateCall
    \/ DbRemoveCall
    \/ AddLabelsCall
    \/ RemoveLabelsCall
    \/ AddTagsCall
    \/ AddAuthorsCall

SpecTables == InitTables /\ [][NextTables]_vars

-----------------------------------------------------------------------------
(* papers-core: calls of Repo::update that run side by side *)

\* a call of Repo::update that has built its PaperUpdate: the arguments,
\* the time it read from the clock, the row as it was when the call began,
\* and its turn among the statements executed, 0 before its statement ran
Call(file, title, at, seen) ==
    [file |-> file, title |-> title, at |-> at, seen |-> seen, turn |-> 0]

\* the number of UPDATE statements executed so far
Turns == Cardinality({i \in DOMAIN calls : calls[i].turn > 0})

\* the first half of Repo::update: the file is checked and the PaperUpdate
\* is built with modified_at = now_naive(); a call that fails ends here
RaceBegin ==
    /\ Len(calls) < MaxCalls
    /\ \E file \in {None} \cup DOMAIN fs, title \in {<<>>, << <<B>> >>, << <<C>> >>} :
          LET r == DbUpdate(db, fs, 1, file, title, now)
          IN  IF r.status # "ok"
              THEN /\ status' = r.status
                   /\ UNCHANGED calls
              ELSE /\ status' = "running"
                   /\ calls' = Append(calls, Call(file, title, now, db[1]))
    /\ UNCHANGED <<fs, now, pc, cmd, fs0, paths, other_files, papers,
                   records, moves, out, chained, last, renamed, parsed,
                   loop>>
    /\ UNCHANGED coreVars

\* the second half: Db::update_paper executes the UPDATE statement of one
\* call, which sets the columns that the PaperUpdate names
RaceWrite ==
    \E i \in DOMAIN calls :
        /\ calls[i].turn = 0
        /\ db' = DbUpdate(db, fs, 1, calls[i].file, calls[i].title,
                          calls[i].at).db
        /\ calls' = [calls EXCEPT ![i].turn = Turns + 1]
        /\ status' = "ok"
        /\ last' = Wrote("update", 1, calls[i].at)
        /\ UNCHANGED <<fs, now, pc, cmd, fs0, paths, other_files, papers,
                       records, moves, out, chained, reviewed, waits, asked,
                       listed, renamed, parsed, loop>>

\* time passes while the calls run
RaceTick ==
    /\ now < MaxTime
    /\ now' = now + 1
    /\ UNCHANGED cliVars
    /\ UNCHANGED coreVars
    /\ UNCHANGED extVars

\* one paper added at time 0, with or without a document
InitRace ==
    /\ fs = FixtureFiles
    /\ now = 1
    /\ pc = "idle"
    /\ cmd = NoCommand
    /\ status = "ok"
    /\ fs0 = fs
    /\ paths = <<>>
    /\ other_files = <<>>
    /\ papers = {}
    /\ records = <<>>
    /\ moves = <<>>
    /\ out = {}
    /\ chained = FALSE
    /\ last = Wrote("add", 1, 0)
    /\ reviewed = NoReview
    /\ waits = <<>>
    /\ asked = NoAsk
    /\ \E file \in {None, Path("root", Dot(B, PDF))} :
          db = DbAdd(<<>>, fs, file, <<A>>, {}, {}, {}, 0).db
    /\ listed = NoListing
    /\ calls = <<>>
    /\ renamed = NoRename
    /\ parsed = NoIds
    /\ loop = NoLoop

NextRace == RaceTick \/ RaceBegin \/ RaceWrite

SpecRace == InitRace /\ [][NextRace]_vars

-----------------------------------------------------------------------------
(* rename strategy on its own: a title, its name and the name of the name *)

\* the characters of the titles: a letter, a space and prohibited characters
TitleChars == {"a", " ", "/", ".", ":"}

\* the titles of at most MaxTitle characters
TitleStrings == UNION {[1..n -> TitleChars] : n \in 0..MaxTitle}

\* a paper with the title and nothing else that matters to the name
Titled(title, filename, t) ==
    [title |-> title, filename |-> filename, created_at |-> t,
     modified_at |-> t]

\* Strategy::Title names the paper and the note path is derived
StripTitle ==
    /\ renamed.step = 1
    /\ \E filename \in {None, Path("root", Dot(B, PDF))}, t \in 0..1 :
          LET meta == Titled(renamed.title, filename, t)
          IN  renamed' = [renamed EXCEPT
                             !.step = 2,
                             !.meta = meta,
                             !.name = StrategyRename("Title", meta).name,
                             !.path = GetPath(meta)]
    /\ UNCHANGED cliVars
    /\ UNCHANGED coreVars
    /\ UNCHANGED <<now, calls, parsed, loop>>

\* the name is taken as a title and named again
StripAgain ==
    /\ renamed.step = 2
    /\ renamed' = [renamed EXCEPT
                      !.step = 3,
                      !.again = StrategyRename("Title",
                                    Titled(renamed.name, None, 0)).name]
    /\ UNCHANGED cliVars
    /\ UNCHANGED coreVars
    /\ UNCHANGED <<now, calls, parsed, loop>>

InitStrip ==
    /\ fs = <<>>
    /\ now = 0
    /\ pc = "idle"
    /\ cmd = NoCommand
    /\ status = "ok"
    /\ fs0 = fs
    /\ paths = <<>>
    /\ other_files = <<>>
    /\ papers = {}
    /\ records = <<>>
    /\ moves = <<>>
    /\ out = {}
    /\ chained = FALSE
    /\ last = NoPaper
    /\ reviewed = NoReview
    /\ waits = <<>>
    /\ asked = NoAsk
    /\ db = <<>>
    /\ listed = NoListing
    /\ calls = <<>>
    /\ parsed = NoIds
    /\ loop = NoLoop
    /\ \E title \in TitleStrings :
          renamed = [step |-> 1, title |-> title, meta |-> Titled(title, None, 0),
                     name |-> <<>>, path |-> None, again |-> <<>>]

NextStrip == StripTitle \/ StripAgain

SpecStrip == InitStrip /\ [][NextStrip]_vars

-----------------------------------------------------------------------------
(* ids: parsing a list of ids *)

\* the value of a decimal digit
DigitValue ==
    [c \in {"0", "1", "2", "3", "4", "5", "6", "7", "8", "9"} |->
        CASE c = "0" -> 0 [] c = "1" -> 1 [] c = "2" -> 2 [] c = "3" -> 3
          [] c = "4" -> 4 [] c = "5" -> 5 [] c = "6" -> 6 [] c = "7" -> 7
          [] c = "8" -> 8 [] c = "9" -> 9]

\* the number that a string of digits writes
RECURSIVE Decimal(_)
Decimal(str) ==
    IF str = <<>> THEN 0
    ELSE 10 * Decimal(SubSeq(str, 1, Len(str) - 1))
             + DigitValue[str[Len(str)]]

\* str::parse::<i32>: an optional sign and at least one digit, within the
\* range of i32
ParseI32(str) ==
    LET signed == str # <<>> /\ str[1] \in {"+", "-"}
        digits == IF signed THEN Tail(str) ELSE str
        value == IF signed /\ str[1] = "-" THEN -Decimal(digits)
                 ELSE Decimal(digits)
    IN  IF digits = <<>> \/ \E i \in DOMAIN digits :
                                digits[i] \notin DOMAIN DigitValue
        THEN [err |-> "invalid digit"]
        ELSE IF value < -2147483647 - 1 \/ value > 2147483647
        THEN [err |-> "out of range"]
        ELSE [err |-> "", value |-> value]

\* the place of the first c in str, 0 when there is none
Find(str, c) ==
    LET at == {i \in DOMAIN str : str[i] = c}
    IN  IF at = {} THEN 0 ELSE CHOOSE i \in at : \A j \in at : i <= j

\* str::split: the pieces between the separators, one piece for a string
\* without a separator
RECURSIVE Split(_, _)
Split(str, c) ==
    IF Find(str, c) = 0 THEN <<str>>
    ELSE <<SubSeq(str, 1, Find(str, c) - 1)>>
             \o Split(SubSeq(str, Find(str, c) + 1, Len(str)), c)

\* BTreeSet::into_iter().collect(): the elements in increasing order
IntoIter(S) ==
    IF S = {} THEN <<>>
    ELSE LET least == CHOOSE x \in S : \A y \in S : x <= y
             most == CHOOSE x \in S : \A y \in S : y <= x
         IN  SelectSeq([i \in 1..(most - least + 1) |-> least + i - 1],
                       LAMBDA x : x \in S)

\* the loop of from_str over the pieces: a piece with '-' is a range from
\* the part before the first '-' to the part after it, any other piece is
\* an id; the first piece that does not parse ends the loop
RECURSIVE ParsePieces(_, _)
ParsePieces(pieces, ids) ==
    IF pieces = <<>> THEN [err |-> "", ids |-> ids]
    ELSE LET piece == Head(pieces)
             dash == Find(piece, "-")
             start == ParseI32(SubSeq(piece, 1, dash - 1))
             end == ParseI32(SubSeq(piece, dash + 1, Len(piece)))
             id == ParseI32(piece)
         IN  IF dash # 0
             THEN IF start.err # "" \/ end.err # ""
                  THEN [err |-> "Failed to parse"]
                  ELSE ParsePieces(Tail(pieces),
                                   ids \cup (start.value..end.value))
             ELSE IF id.err # "" THEN [err |-> "Failed to parse"]
                  ELSE ParsePieces(Tail(pieces), ids \cup {id.value})

\* a variant of IdsFromStr that collects the ids in a Vec, as they come
RECURSIVE PushPieces(_, _)
PushPieces(pieces, ids) ==
    IF pieces = <<>> THEN ids
    ELSE LET piece == Head(pieces)
             dash == Find(piece, "-")
             start == ParseI32(SubSeq(piece, 1, dash - 1)).value
             end == ParseI32(SubSeq(piece, dash + 1, Len(piece))).value
         IN  PushPieces(Tail(pieces),
                        ids \o (IF dash = 0 THEN <<ParseI32(piece).value>>
                                ELSE [i \in 1..(end - start + 1) |->
                                         start + i - 1]))

IdsFromStrPushed(str) ==
    IF str = <<>> THEN [err |-> "No ids found"]
    ELSE IF ParsePieces(Split(str, ","), {}).err # ""
    THEN [err |-> "Failed to parse"]
    ELSE [err |-> "", ids |-> PushPieces(Split(str, ","), <<>>)]

\* Ids::from_str
IdsFromStr(str) ==
    IF str = <<>> THEN [err |-> "No ids found"]
    ELSE LET r == ParsePieces(Split(str, ","), {})
         IN  IF r.err # "" THEN r
             ELSE [err |-> "", ids |-> IntoIter(r.ids)]

\* the characters of the strings given as id lists
IdChars == {"1", "3", ",", "-", "x"}

\* the strings of at most MaxIds characters
IdStrings == UNION {[1..n -> IdChars] : n \in 0..MaxIds}

\* the pieces in the opposite order, joined by commas
RECURSIVE Reversed(_)
Reversed(pieces) ==
    IF Len(pieces) <= 1 THEN IF pieces = <<>> THEN <<>> ELSE pieces[1]
    ELSE Reversed(Tail(pieces)) \o <<",">> \o pieces[1]

\* the --ids argument is parsed; the same list with its items in the
\* opposite order is parsed beside it
ParseIds ==
    /\ parsed.step = 1
    /\ parsed' = [parsed EXCEPT
                     !.step = 2,
                     !.result = IdsFromStr(parsed.input),
                     !.swapped = IdsFromStr(Reversed(Split(parsed.input,
                                                           ",")))]
    /\ UNCHANGED cliVars
    /\ UNCHANGED coreVars
    /\ UNCHANGED <<now, calls, renamed, loop>>

InitIds ==
    /\ fs = <<>>
    /\ now = 0
    /\ pc = "idle"
    /\ cmd = NoCommand
    /\ status = "ok"
    /\ fs0 = fs
    /\ paths = <<>>
    /\ other_files = <<>>
    /\ papers = {}
    /\ records = <<>>
    /\ moves = <<>>
    /\ out = {}
    /\ chained = FALSE
    /\ last = NoPaper
    /\ reviewed = NoReview
    /\ waits = <<>>
    /\ asked = NoAsk
    /\ db = <<>>
    /\ listed = NoListing
    /\ calls = <<>>
    /\ renamed = NoRename
    /\ loop = NoLoop
    /\ \E input \in IdStrings :
          parsed = [step |-> 1, input |-> input, result |-> [err |-> ""],
                    swapped |-> [err |-> ""]]

NextIds == ParseIds

SpecIds == InitIds /\ [][NextIds]_vars

-----------------------------------------------------------------------------
(* cli: the remove command on the tables and the documents *)

\* std::fs::remove_file
RemoveFile(f, p) == [q \in DOMAIN f \ {p} |-> f[q]]

\* the list call of remove: the papers whose file name matches, no other
\* filter
WithThatFile(d, filename) ==
    RepoList(d, [match_ids |-> <<>>, match_file |-> <<RelativePath(filename)>>,
                 match_title |-> <<>>, match_authors |-> {},
                 match_tags |-> {}, match_labels |-> {},
                 include_deleted |-> FALSE])

\* the result of remove: the tables, the files and what was done
Removed(result, d, f, paper, with_file, others) ==
    [status |-> result, db |-> d, fs |-> f, paper |-> paper,
     with_file |-> with_file, others |-> others]

\* a variant of RemoveCommand that removes the document without the list call
RemoveCommandUnchecked(d, f, paper_id, with_file) ==
    LET found == GetPaperById(d, paper_id)
    IN  IF found.err # "" THEN Removed("ok", d, f, <<>>, with_file, <<>>)
        ELSE Removed("ok", DbRemove(d, paper_id).db,
                     IF with_file THEN RemoveFile(f, found.paper.filename)
                     ELSE f,
                     <<found.paper>>, with_file, <<>>)

\* remove: a paper that get_paper does not find is reported and nothing is
\* done; else the paper is removed, and with with_file its document is
\* removed when list finds no paper with that file, and kept with a warning
\* when it finds one
RemoveCommand(d, f, paper_id, with_file) ==
    LET found == GetPaperById(d, paper_id)
    IN  IF found.err # "" THEN Removed("ok", d, f, <<>>, with_file, <<>>)
        ELSE LET after == DbRemove(d, paper_id).db
                 paper == found.paper
                 papers_with_that_file == WithThatFile(after, paper.filename)
             IN  IF ~with_file
                 THEN Removed("ok", after, f, <<paper>>, with_file, <<>>)
                 ELSE IF papers_with_that_file # <<>>
                 THEN Removed("ok", after, f, <<paper>>, with_file,
                              papers_with_that_file)
                 ELSE IF ~IsFile(f, paper.filename)
                 THEN Removed("Io", after, f, <<paper>>, with_file, <<>>)
                 ELSE Removed("ok", after, RemoveFile(f, paper.filename),
                              <<paper>>, with_file, <<>>)

\* the documents of the root: two in the root, the name of one ending with
\* the name of the other, and one of that name in a directory
RemoveFiles ==
    [p \in {Path("root", Dot(B, PDF)), Path("root", Dot(A \o B, PDF)),
            Path("nested", Dot(B, PDF))} |-> Doc(PDF)]

\* the step of a command of this section
RemoveStep(op, id, r, removed) ==
    /\ db' = r.db
    /\ fs' = r.fs
    /\ status' = r.status
    /\ last' = [note |-> None, doc |-> None, op |-> op, id |-> id, at |-> now,
                removed |-> removed]
    /\ UNCHANGED <<now, pc, cmd, fs0, paths, other_files, papers, records,
                   moves, out, chained, reviewed, waits, asked, listed>>
    /\ UNCHANGED extVars

\* papers add <file>: a paper always has a document in this command line
RemoveAddCall ==
    /\ Len(db) < MaxPapers
    /\ \E file \in DOMAIN fs :
          LET r == DbAdd(db, fs, file, <<A>>, {}, {}, {}, now)
          IN  RemoveStep("add", r.id, [status |-> r.status, db |-> r.db,
                                      fs |-> fs], <<>>)

\* papers remove <paper_id> [--with-file]
RemoveCall ==
    \E paper_id \in 1..MaxPapers, with_file \in BOOLEAN :
        LET r == RemoveCommand(db, fs, paper_id, with_file)
        IN  RemoveStep("remove", paper_id, r,
                       <<[paper |-> r.paper, with_file |-> r.with_file,
                          others |-> r.others]>>)

InitRemove ==
    /\ fs = RemoveFiles
    /\ now = 0
    /\ pc = "idle"
    /\ cmd = NoCommand
    /\ status = "ok"
    /\ fs0 = fs
    /\ paths = <<>>
    /\ other_files = <<>>
    /\ papers = {}
    /\ records = <<>>
    /\ moves = <<>>
    /\ out = {}
    /\ chained = FALSE
    /\ last = [note |-> None, doc |-> None, op |-> "none", id |-> 0, at |-> 0,
               removed |-> <<>>]
    /\ reviewed = NoReview
    /\ waits = <<>>
    /\ asked = NoAsk
    /\ db = <<>>
    /\ listed = NoListing
    /\ NoExt

NextRemove == RemoveAddCall \/ RemoveCall

SpecRemove == InitRemove /\ [][NextRemove]_vars

-----------------------------------------------------------------------------
(* Claims *)

TitleOnly(title) == [title |-> title]

\* the file given to the last add was absent, or a file under the root
ValidAddFile == cmd.file = None \/ (IsFile(fs0, cmd.file) /\ UnderRoot(cmd.file))

\* the last add named a title whose note path was taken: by the same title,
\* or ("a/" and "a") by a title that is equal after stripping
AddCollides ==
    \/ IsFile(fs0, GetPath(TitleOnly(cmd.title)))
    \/ cmd.title \in {A, <<"a", "/">>} /\ IsFile(fs0, Path("root", Dot(A, MD)))

AddOutsideRootRejected ==
    (cmd.name = "add" /\ cmd.file # None /\ IsFile(fs0, cmd.file)) =>
        IF ~UnderRoot(cmd.file)
        THEN status = "OutsideRoot" /\ fs = fs0
        ELSE /\ status \in {"ok", "AlreadyExists"}
             /\ status = "ok" =>
                    LET p == GetPath(TitleOnly(cmd.title))
                    IN  /\ ~IsFile(fs0, p)
                        /\ IsNote(fs, p)
                        /\ fs[p].meta.filename = cmd.file

\* C7 witness: a file of the neighbour directory is rejected after a file of
\* the nested directory was accepted
AddOutsideRootSeen ==
    /\ cmd.name = "add"
    /\ cmd.file.dir = "neighbour"
    /\ IsFile(fs0, cmd.file)
    /\ status = "OutsideRoot"
    /\ \E p \in DOMAIN fs : IsNote(fs, p) /\ fs[p].meta.filename.dir = "nested"

\* C2: a rename-files run that directly follows a completed rename-files run
\* performs no move.
RenameIdempotent ==
    (cmd.name = "rename-files" /\ chained) => moves = <<>>

\* C3: a doctor run never moves a file onto a path that holds another file,
\* and no file of the repository is lost.
DoctorKeepsEveryFile ==
    cmd.name = "doctor" =>
        /\ \A i \in DOMAIN moves : ~moves[i].clobber
        /\ Cardinality(DOMAIN fs) = Cardinality(DOMAIN fs0)

\* C4: when doctor --fix has ended, every note that was at a wrong path when
\* it started is at its expected path, and no note of the root is at a
\* wrong path any more.
DoctorFixRealignsNotes ==
    (cmd.name = "doctor" /\ cmd.flag /\ pc = "idle") =>
        /\ \A p \in DOMAIN fs0 :
              (IsNote(fs0, p) /\ GetPath(fs0[p].meta) # p)
                  => IsNote(fs, GetPath(fs0[p].meta))
        /\ \A q \in RootFiles(fs) : IsNote(fs, q) => GetPath(fs[q].meta) = q

\* C5: when rename-files or doctor has ended, every paper of the pass has
\* been visited.
BestEffortVisitsAll ==
    (cmd.name \in {"doctor", "rename-files"} /\ pc = "idle") =>
        paths = <<>> /\ papers = {}

\* C6: when import has ended, every record of the input has been attempted.
ImportAttemptsEveryRecord ==
    (cmd.name = "import" /\ pc = "idle") => records = <<>>

\* C8: after rename-files or doctor --fix has moved the document of a paper,
\* the filename of the paper's note is the path of the moved file.
MovedDocumentRepointed ==
    (cmd.name \in {"rename-files", "doctor"} /\ last.doc # None) =>
        IsNote(fs, last.note) /\ fs[last.note].meta.filename = last.doc

\* the content of a file that a rename-files run keeps: a document as it
\* is, a note but for the filename and modified_at that update writes
Kept(c) ==
    IF c.kind = "note"
    THEN [kind |-> "note", title |-> c.meta.title,
          created_at |-> c.meta.created_at, notes |-> c.notes]
    ELSE c

\* C9: every move of a rename-files run goes to a different path that held
\* no file, so no file is lost and every content is kept; and a step that
\* moves nothing leaves every file as it was.
RenameMovesOnlyToFreePaths ==
    /\ [](cmd.name = "rename-files" =>
            /\ \A i \in DOMAIN moves :
                  moves[i].from # moves[i].to /\ ~moves[i].clobber
            /\ Cardinality(DOMAIN fs) = Cardinality(DOMAIN fs0)
            /\ \A p \in DOMAIN fs0 :
                  \E q \in DOMAIN fs : Kept(fs[q]) = Kept(fs0[p]))
    /\ [][moves' = moves => fs' = fs]_vars

\* C9 witness: two notes derive one name; the first was moved to it and the
\* second was skipped
RenameConflictSeen ==
    /\ cmd.name = "rename-files"
    /\ ~cmd.flag
    /\ pc = "idle"
    /\ status = "ok"
    /\ Len(moves) = 1
    /\ \E p, q \in DOMAIN fs :
          /\ p # q
          /\ IsNote(fs, p) /\ IsNote(fs, q)
          /\ GetPath(fs[p].meta) = p
          /\ GetPath(fs[q].meta) = p
          /\ moves[1].to = p

\* C10: doctor without --fix moves no file and writes no note: the files,
\* their paths and their contents are those of the start of the run.
DoctorWithoutFixReadOnly ==
    (cmd.name = "doctor" /\ ~cmd.flag) => fs = fs0 /\ moves = <<>>

\* C10 witness: a run without --fix has ended after reporting a note and a
\* document at wrong paths
DoctorReportOnlySeen ==
    /\ cmd.name = "doctor"
    /\ ~cmd.flag
    /\ pc = "idle"
    /\ status = "ok"
    /\ \E r1, r2 \in out :
          r1.kind = "NoteAtWrongPath" /\ r2.kind = "FileAtWrongPath"

\* the review made last, as recorded when it was made
LastWait == waits[Len(waits)]

\* C11: update_review at time now sets last_review to the previous
\* next_review and next_review to now + wait_days days; wait_days is 1
\* unless both dates were set, and then the square of the whole days from
\* last_review to next_review when they are more than one, and 2 otherwise.
UpdateReviewFormula ==
    waits # <<>> =>
        LET b == LastWait.before
            wait_days ==
                IF b.last_review = <<>> \/ b.next_review = <<>> THEN 1
                ELSE LET gap == (b.next_review[1] - b.last_review[1]) \div Day
                     IN  IF gap > 1 THEN gap * gap ELSE 2
        IN  /\ reviewed.last_review = b.next_review
            /\ reviewed.next_review = <<LastWait.at + wait_days * Day>>
            /\ LastWait.days = wait_days

\* C11 witness: a review found both dates set and more than a day apart, by
\* a number of ticks that is no whole number of days
UpdateReviewSquaredSeen ==
    /\ waits # <<>>
    /\ LastWait.before.last_review # <<>>
    /\ LastWait.before.next_review # <<>>
    /\ (LastWait.before.next_review[1] - LastWait.before.last_review[1]) % Day # 0
    /\ LastWait.days > 2

\* every review so far was made less than a day after the first
Immediate == \A i \in DOMAIN waits : waits[i].at - waits[1].at < Day

\* C12: from a paper never reviewed, the first review sets next_review one
\* day after now, and in a row of immediate reviews neither next_review nor
\* the wait gets smaller from one review to the next.
ImmediateReviewsNeverShrink ==
    (waits # <<>> /\ waits[1].before = NoReview /\ Immediate) =>
        /\ waits[1].after.next_review = <<waits[1].at + Day>>
        /\ \A i \in DOMAIN waits : i > 1 =>
              /\ waits[i].after.next_review[1] >= waits[i - 1].after.next_review[1]
              /\ waits[i].days >= waits[i - 1].days

\* C12 witness: a row of immediate reviews has reached the wait of two days
ImmediateReviewsSeen ==
    /\ Len(waits) >= 4
    /\ waits[1].before = NoReview
    /\ Immediate
    /\ LastWait.days = 2
    /\ LastWait.at > waits[1].at

\* C13: the wait chosen by a review is never smaller than the wait chosen
\* by the review before it.
WaitsNeverShrink ==
    \A i \in DOMAIN waits : i > 1 => waits[i].days >= waits[i - 1].days

\* C14: is_reviewable is true exactly when next_review is unset or strictly
\* before now; it is false when next_review equals now, and last_review
\* does not change the result.
ReviewableWhenPast ==
    asked.asked =>
        LET next == asked.meta.next_review
        IN  /\ next = <<>> => asked.result
            /\ next # <<>> => (asked.result <=> next[1] < asked.at)
            /\ next = <<asked.at>> => ~asked.result
            /\ \A l \in {<<>>, <<0>>, <<asked.at>>} :
                  IsReviewable([asked.meta EXCEPT !.last_review = l], asked.at)
                      = asked.result

\* C14 witness: a paper reviewed before is asked about at the very time of
\* its next review
ReviewableAtDueSeen ==
    /\ asked.asked
    /\ asked.meta.last_review # <<>>
    /\ asked.meta.next_review = <<asked.at>>
    /\ ~asked.result
    /\ waits # <<>>

\* C18: no stored paper has a title that is empty after stripping: an add
\* with no title, an empty title or a title of prohibited characters only
\* is rejected and creates no note.
NoEmptyTitleStored ==
    /\ \A p \in DOMAIN fs : IsNote(fs, p) => Strip(fs[p].meta.title) # <<>>
    /\ (cmd.name = "add" /\ Strip(cmd.title) = <<>>) =>
            status # "ok" /\ fs = fs0

Referred(p) ==
    \E q \in RootFiles(fs0) :
        IsMd(q) /\ IsNote(fs0, q) /\ fs0[q].meta.filename = p

\* C20: when a doctor scan has ended, a file under the root that is no .md
\* file is reported as unmatched exactly when no parsed paper names it.
UnmatchedExactlyUnreferred ==
    (cmd.name = "doctor" /\ pc = "idle" /\ status = "ok") =>
        \A p \in DOMAIN fs0 :
            (UnderRoot(p) /\ ~IsMd(p)) =>
                (Report("Unmatched", p) \in out <=> ~Referred(p))

\* the ids of the papers that the last list returned
ListedIds == {listed.result[j].id : j \in DOMAIN listed.result}

\* the last list was called with no filter but tags
OnlyTags ==
    /\ listed.query.match_ids = <<>>
    /\ listed.query.match_file = <<>>
    /\ listed.query.match_title = <<>>
    /\ listed.query.match_authors = {}
    /\ listed.query.match_labels = {}
    /\ ~listed.query.include_deleted

\* C15: every paper that list returns holds all the requested tags; with
\* tag filters only, list returns exactly the papers not removed whose tags
\* include the requested ones, so with no filter every paper not removed.
ListTagsAll ==
    listed.called =>
        /\ \A id \in ListedIds : listed.query.match_tags \subseteq db[id].tags
        /\ OnlyTags =>
              ListedIds = {id \in DOMAIN db :
                              /\ ~db[id].deleted
                              /\ listed.query.match_tags \subseteq db[id].tags}
        /\ (OnlyTags /\ listed.query.match_tags = {}) =>
              ListedIds = {id \in DOMAIN db : ~db[id].deleted}

\* C15 witness: two tags are requested; a paper with both is returned and a
\* paper with one of them is not
ListTwoTagsSeen ==
    /\ listed.called
    /\ OnlyTags
    /\ listed.query.match_tags = {"t1", "t2"}
    /\ \E i, j \in DOMAIN db :
          /\ i \in ListedIds
          /\ j \notin ListedIds
          /\ db[j].tags = {"t1"}
          /\ ~db[j].deleted

\* C16: every paper that list returns holds every requested label, with
\* the requested key and the requested value.
ListLabelsKeyAndValue ==
    listed.called =>
        \A id \in ListedIds : listed.query.match_labels \subseteq db[id].labels

\* C17: in every row modified_at is not before created_at, and the row
\* that add, import, update or update_paper wrote last has the time of the
\* write as modified_at.
ModifiedAtStamped ==
    /\ \A id \in DOMAIN db : db[id].modified_at >= db[id].created_at
    /\ (last.op \in {"add", "import", "update", "update_paper"}
            /\ status = "ok" /\ last.id \in DOMAIN db) =>
          db[last.id].modified_at = last.at

\* the call whose statement ran last
LaterCall == CHOOSE i \in DOMAIN calls : calls[i].turn = Turns

\* C21: when the statements of two calls of update on one paper have run,
\* the record is what the later call wrote as a whole: the record as that
\* call found it with the changes of that call, never a mixture holding a
\* change of the earlier call that the later call had not seen.
LaterWriteWinsWhole ==
    (Turns >= 2 /\ Turns = Len(calls)) =>
        db[1] = DbUpdate(<<calls[LaterCall].seen>>, fs, 1,
                         calls[LaterCall].file, calls[LaterCall].title,
                         calls[LaterCall].at).db[1]

\* the number of characters of n that are in the set S
Count(n, S) == Cardinality({i \in 1..Len(n) : n[i] \in S})

\* C22: the name made of a title holds none of the prohibited characters
\* and every other character of the title, naming the name again gives the
\* name, and the path derived is the name followed by one .md extension,
\* the same for every file name and time the paper has.
StripIdempotent ==
    /\ renamed.step >= 2 =>
          /\ Count(renamed.name, PROHIBITED_CHARS) = 0
          /\ Len(renamed.name) = Len(renamed.title)
                                     - Count(renamed.title, PROHIBITED_CHARS)
          /\ renamed.path = Path("root", renamed.name \o <<".">> \o MD)
          /\ Count(renamed.path.name, {"."}) = 1
          /\ renamed.path = GetPath(Titled(renamed.title, None, 0))
    /\ renamed.step = 3 => renamed.again = renamed.name

\* a title with two prohibited characters and a document was named twice
StripTwiceSeen ==
    /\ renamed.step = 3
    /\ Count(renamed.title, PROHIBITED_CHARS) >= 2
    /\ renamed.name # <<>>
    /\ renamed.meta.filename # None

\* the step is an add of a title without a file, whose path is free
AddsFreeTitle ==
    /\ now' = now
    /\ cmd'.name = "add"
    /\ cmd'.file = None
    /\ fs0' = fs
    /\ ~IsFile(fs, GetPath(TitleOnly(cmd'.title)))

LiveQueries == {q \in Queries : ~q.include_deleted}

\* C24: a removed paper is not found by get_paper and is in no result of
\* list without include_deleted; it stays removed whatever update,
\* add_tags, add_labels, add_authors or remove follows; and remove changes
\* the record of no other paper.
RemovedStaysHidden ==
    /\ [](\A id \in DOMAIN db :
            db[id].deleted =>
                /\ GetPaperById(db, id).err = "Paper not found"
                /\ \A q \in LiveQueries :
                      \A j \in DOMAIN RepoList(db, q) :
                          RepoList(db, q)[j].id # id)
    /\ [][/\ \A id \in DOMAIN db :
                db[id].deleted => id \in DOMAIN db' /\ db'[id].deleted
          /\ last'.op = "remove" =>
                /\ DOMAIN db' = DOMAIN db
                /\ \A id \in DOMAIN db : id # last'.id => db'[id] = db[id]]_vars

\* the paper that was added first was removed and then given a label
RemovedThenChangedSeen ==
    /\ last.op = "add_labels"
    /\ last.id = 1
    /\ db[last.id].deleted
    /\ Range(last.given) \cap db[last.id].labels # {}
    /\ db[last.id].tags # {}
    /\ db[last.id].authors # {}

\* C28: a paper holds at most one value for a label key; add_labels keeps
\* the value of every key the paper has and gives a new key the first
\* value listed for it; add_tags and add_authors with elements the paper
\* has change nothing.
OneValuePerLabelKey ==
    /\ [](\A id \in DOMAIN db :
            \A x, y \in db[id].labels : x.key = y.key => x = y)
    /\ [][/\ last'.op = "add_labels" =>
                /\ db[last'.id].labels \subseteq db'[last'.id].labels
                /\ \A i \in DOMAIN last'.given :
                      \/ \E x \in db[last'.id].labels :
                            x.key = last'.given[i].key
                      \/ \E j \in 1..i :
                            /\ last'.given[j].key = last'.given[i].key
                            /\ last'.given[j] \in db'[last'.id].labels
          /\ (last'.op = "add_tags"
                 /\ Range(last'.given) \subseteq db[last'.id].tags) =>
                db' = db
          /\ (last'.op = "add_authors"
                 /\ Range(last'.given) \subseteq db[last'.id].authors) =>
                db' = db]_vars

\* add_labels was given k=v2 for a paper that was added with k=v1, and
\* the paper holds k=v1
LabelKeptSeen ==
    /\ last.op = "add_labels"
    /\ last.given = <<Label("k", "v2")>>
    /\ last.id \in DOMAIN db
    /\ db[last.id].labels = {Label("k", "v1")}

\* C25: a dry run of rename-files moves no document and no note and
\* writes no note: at every point of the run the files, their paths and
\* their contents are those of the start of the run.
DryRunChangesNothing ==
    (cmd.name = "rename-files" /\ cmd.flag) =>
        /\ fs = fs0
        /\ moves = <<>>

\* a dry run has ended after it printed the rename of a document and the
\* rename of a note
DryRunPrintedSeen ==
    /\ cmd.name = "rename-files"
    /\ cmd.flag
    /\ pc = "idle"
    /\ status = "ok"
    /\ \E r \in out : IsNote(fs, r.path)
    /\ \E r \in out : IsFile(fs, r.path) /\ ~IsNote(fs, r.path)

\* the strings of digits
IsNumber(str) ==
    str # <<>> /\ \A i \in DOMAIN str : str[i] \in DOMAIN DigitValue

\* a number with or without a sign
IsSigned(str) ==
    \/ IsNumber(str)
    \/ str # <<>> /\ str[1] \in {"+", "-"} /\ IsNumber(Tail(str))

\* the number that a signed string writes
Signed(str) ==
    IF IsNumber(str) THEN Decimal(str)
    ELSE IF str[1] = "-" THEN -Decimal(Tail(str)) ELSE Decimal(Tail(str))

\* an item of an id list: an id, or a start and an end with a '-' between,
\* which is the first '-' of the item
IsItem(piece) ==
    IF \A i \in DOMAIN piece : piece[i] # "-" THEN IsSigned(piece)
    ELSE LET i == CHOOSE i \in DOMAIN piece :
                      piece[i] = "-" /\ \A j \in 1..(i - 1) : piece[j] # "-"
         IN  /\ IsSigned(SubSeq(piece, 1, i - 1))
             /\ IsSigned(SubSeq(piece, i + 1, Len(piece)))

\* the ids that an item lists
ItemIds(piece) ==
    IF \A i \in DOMAIN piece : piece[i] # "-" THEN {Signed(piece)}
    ELSE LET i == CHOOSE i \in DOMAIN piece :
                      piece[i] = "-" /\ \A j \in 1..(i - 1) : piece[j] # "-"
         IN  Signed(SubSeq(piece, 1, i - 1))
                 ..Signed(SubSeq(piece, i + 1, Len(piece)))

\* C26: an id list parses to the union of the ids and ranges of its items,
\* as a strictly increasing sequence, whatever the order of the items; the
\* empty string and a list with a piece that is no item give an error.
IdsAreSortedUnion ==
    parsed.step = 2 =>
        LET pieces == Split(parsed.input, ",")
            wellFormed == parsed.input # <<>>
                              /\ \A i \in DOMAIN pieces : IsItem(pieces[i])
        IN  /\ wellFormed <=> parsed.result.err = ""
            /\ parsed.result.err = "" =>
                  /\ \A i \in 1..(Len(parsed.result.ids) - 1) :
                        parsed.result.ids[i] < parsed.result.ids[i + 1]
                  /\ Range(parsed.result.ids)
                        = UNION {ItemIds(pieces[i]) : i \in DOMAIN pieces}
                  /\ parsed.swapped = parsed.result
            /\ parsed.result.err # "" => parsed.swapped.err # ""

\* a list of a range and an id of the range, the id first, was parsed
IdsOverlapSeen ==
    /\ parsed.step = 2
    /\ parsed.input = <<"3", ",", "1", "-", "3">>
    /\ parsed.result.err = ""
    /\ parsed.result.ids = <<1, 2, 3>>

\* C27: update_paper(original, updated) fails when the ids differ, when the
\* deleted flag differs and when created_at differs, and a failed update_paper
\* leaves every row of every table as it was
Refused(original, updated) ==
    \/ original.id # updated.id
    \/ original.deleted # updated.deleted
    \/ original.created_at # updated.created_at

RefusedUpdateChangesNothing ==
    /\ [](\A paper_id \in DOMAIN db :
            \A updated \in Updates(PaperOf(db, paper_id), now) :
                Refused(PaperOf(db, paper_id), updated) =>
                    LET r == DbUpdatePaper(db, PaperOf(db, paper_id), updated)
                    IN  r.status # "ok" /\ r.db = db)
    /\ [][last'.op = "update_paper" /\ status' # "ok" => db' = db]_vars

RefusedUpdateSeen ==
    /\ last.op = "update_paper"
    /\ status = "CannotUpdateCreatedAt"
    /\ \E paper_id \in DOMAIN db :
          ~db[paper_id].deleted /\ db[paper_id].modified_at > 0

\* C29: remove deletes a document only with with_file, only the document
\* of the paper it removed, and only when no paper left in the list has a
\* file name that matches it; so the document of a paper that is still
\* listed is never deleted, and without with_file no file is deleted.
RemoveKeepsNeededFiles ==
    [][\A p \in DOMAIN fs \ DOMAIN fs' :
          /\ last'.op = "remove"
          /\ last'.removed[1].with_file
          /\ last'.removed[1].paper # <<>>
          /\ last'.removed[1].paper[1].filename = p
          /\ db'[last'.id].deleted
          /\ \A id \in DOMAIN db' :
                ~db'[id].deleted =>
                    /\ db'[id].filename # p
                    /\ ~Contains(ToLowercase(RelativePath(db'[id].filename)),
                                 ToLowercase(RelativePath(p)))]_vars

RemoveWithFileSeen ==
    /\ last.op = "remove"
    /\ last.removed[1].with_file
    /\ last.removed[1].paper # <<>>
    /\ ~IsFile(fs, last.removed[1].paper[1].filename)
    /\ \E id \in DOMAIN db : ~db[id].deleted

\* remove kept a document that another paper needs
RemoveKeptFileSeen ==
    /\ last.op = "remove"
    /\ last.removed[1].with_file
    /\ last.removed[1].others # <<>>
    /\ \E id \in DOMAIN db :
          ~db[id].deleted
              /\ db[id].filename = last.removed[1].paper[1].filename

\* the papers of the reviews that the loop made
ReviewedPapers == {waits[i].paper : i \in DOMAIN waits}

\* C30, as stated: when the loop ends with success less than a day after
\* it began, it has made exactly as many reviews as there were papers ready
\* for review when it began.
LoopEndsAfterDueReviews ==
    (pc = "done" /\ status = "ok" /\ now - loop.start < Day) =>
        Len(waits) = Cardinality(loop.due)

\* C30, amended: each review of the loop writes a next_review at least one
\* day after the time of the review, so the paper is not ready for review
\* until more than a day has passed; while less than a day has passed since
\* the loop began no paper is reviewed twice; and when the loop ends with
\* success less than a day after it began, it has made exactly one review
\* of each paper that was ready for review when it began or became ready
\* before it ended, which are the papers ready when it began if no next_review
\* passed meanwhile.
LoopReviewsEachDuePaperOnce ==
    /\ \A i \in DOMAIN waits :
          /\ waits[i].after.next_review[1] >= waits[i].at + Day
          /\ (\A j \in DOMAIN waits : j > i => waits[j].paper # waits[i].paper)
                 /\ now <= waits[i].at + Day
              => ~IsReviewable(loop.metas[waits[i].paper], now)
    /\ (pc # "idle" /\ now - loop.start < Day) =>
          \A i, j \in DOMAIN waits : waits[i].paper = waits[j].paper => i = j
    /\ (pc = "done" /\ status = "ok" /\ now - loop.start < Day) =>
          /\ ReviewedPapers = ReviewablePapers(loop.first, loop.ended)
          /\ Len(waits) = Cardinality(ReviewedPapers)
          /\ loop.due \subseteq ReviewedPapers
          /\ ReviewablePapers(loop.first, loop.ended) = loop.due
                => Len(waits) = Cardinality(loop.due)

LoopReviewedLateComerSeen ==
    /\ pc = "done"
    /\ status = "ok"
    /\ now - loop.start < Day
    /\ loop.due # {}
    /\ Len(waits) > Cardinality(loop.due)

====
